---- MODULE Spec2Model ----
(***************************************************************************)
(* The analytics engine of the dashboard (src/application.py): the         *)
(* history callbacks update_barchart and update_amount_income_chart, the    *)
(* comparison callback update_enhanced_comparison_content with its helpers  *)
(* create_comparison_chart_updated, create_dumbbell_chart_updated and       *)
(* generate_enhanced_comparison_text_updated.                               *)
(*                                                                         *)
(* The server keeps one piece of state between requests, the module-level  *)
(* table sample_data.  A callback is one request: its arguments arrive, it  *)
(* computes on a private copy of the table and returns its outputs.  The    *)
(* variable frame holds the request being answered (function, arguments,    *)
(* the locals the claims speak about, the returned outputs).                *)
(*                                                                         *)
(* Numbers.  Metric values are floats in the program.  The model computes   *)
(* in exact rational arithmetic: a number is <<n, d>> with d > 0 in lowest  *)
(* terms; <<0, 0>> is the outcome of a division by zero.                    *)
(***************************************************************************)
EXTENDS Integers, Sequences, FiniteSets, TLC

VARIABLES sample_data, frame, ui

vars == <<sample_data, frame, ui>>

----------------------------------------------------------------------------
(* Bounds of the model *)

\* Largest number of rows of the loaded table.
MaxRecords == 3

\* Largest number of entries of the comparison date multi-select.
MaxSelected == 3

\* Largest number of clicks on one save button.
MaxClicks == 2

----------------------------------------------------------------------------
(* Exact arithmetic standing for the program's float arithmetic *)

Abs(n) == IF n < 0 THEN -n ELSE n

RECURSIVE GCD(_, _)
GCD(a, b) == IF b = 0 THEN a ELSE GCD(b, a % b)

DivByZero == <<0, 0>>

RatNorm(n, d) ==
    IF d = 0 THEN DivByZero
    ELSE LET g == GCD(Abs(n), Abs(d))
             s == IF d < 0 THEN -1 ELSE 1
         IN  <<(s * n) \div g, (s * d) \div g>>

Rat(n) == <<n, 1>>

RatAdd(a, b) == RatNorm(a[1] * b[2] + b[1] * a[2], a[2] * b[2])

RatSub(a, b) == RatNorm(a[1] * b[2] - b[1] * a[2], a[2] * b[2])

RatMul(a, b) == RatNorm(a[1] * b[1], a[2] * b[2])

\* Python's a / b
RatDiv(a, b) == IF b[1] = 0 THEN DivByZero ELSE RatNorm(a[1] * b[2], a[2] * b[1])

RatLt(a, b) == a[1] * b[2] < b[1] * a[2]

RatAbs(a) == <<Abs(a[1]), a[2]>>

RatMax(a, b) == IF RatLt(a, b) THEN b ELSE a

RatMin(a, b) == IF RatLt(b, a) THEN b ELSE a

Zero == Rat(0)

Hundred == Rat(100)

\* the literal 0.01 of the stability tests
OnePercent == <<1, 100>>

Pow10(k) == IF k = 1 THEN 10 ELSE 100

\* format(x, ".kf") for k in {1, 2}: x rounded to k decimals, ties to even,
\* as the count of 10^-k units.
Fmt(x, k) ==
    IF x = DivByZero THEN "nan"
    ELSE LET num == x[1] * Pow10(k)
             q   == num \div x[2]
             r2  == 2 * (num % x[2])
         IN  IF r2 < x[2] THEN q
             ELSE IF r2 > x[2] THEN q + 1
             ELSE IF q % 2 = 0 THEN q ELSE q + 1

----------------------------------------------------------------------------
(* Strings and dates *)

\* The labels of the model in Python's string order (ordinal comparison).
LabelsInOrder == <<"A", "B", "Item 1", "North", "Sales", "South">>

StrRank(s) == CHOOSE i \in 1..Len(LabelsInOrder) : LabelsInOrder[i] = s

StrLess(a, b) == StrRank(a) < StrRank(b)

\* A date is the first day of a month, held as the number of the month.
MkDate(y, m) == y * 12 + (m - 1)

Year(d) == d \div 12

MonthOf(d) == (d % 12) + 1

\* str(period) and strftime('%Y-%m'): the digits of 'YYYY-MM' (the hyphen,
\* always at the fifth place, is left out).
MonthStr(d) ==
    LET y == Year(d)
        m == MonthOf(d)
    IN  <<y \div 1000, (y \div 100) % 10, (y \div 10) % 10, y % 10,
          m \div 10, m % 10>>

\* pd.to_datetime(key + '-01')
ParseMonth(s) ==
    MkDate(s[1] * 1000 + s[2] * 100 + s[3] * 10 + s[4], s[5] * 10 + s[6])

\* Python's < on two 'YYYY-MM' strings
RECURSIVE DigitsLess(_, _)
DigitsLess(a, b) ==
    IF a = <<>> \/ b = <<>> THEN a = <<>> /\ b /= <<>>
    ELSE IF Head(a) /= Head(b) THEN Head(a) < Head(b)
    ELSE DigitsLess(Tail(a), Tail(b))

----------------------------------------------------------------------------
(* The table *)

\* ['Division', 'Type', 'Item', 'Function'], the list the callbacks test
\* a dimension name against
CategoricalVars == {"Division", "Type", "Item", "Function"}

\* The metric columns (Amount_1..3 and Income_1..3 are handled as these are)
MetricVars == {"Amount_total", "Income_total"}

\* sample_data.columns after loading
Columns == {"date"} \cup CategoricalVars \cup MetricVars

Row(d, division, type, amount, income) ==
    [date |-> d, Division |-> division, Type |-> type, Item |-> "Item 1",
     Function |-> "Sales", Amount_total |-> amount, Income_total |-> income]

\* The rows a table of the model is made of.
Pool ==
    { Row(MkDate(2023, 1), "North", "A", 100, 50),
      Row(MkDate(2023, 1), "South", "B", 0, 0),
      Row(MkDate(2023, 5), "North", "B", 150, 75),
      Row(MkDate(2023, 5), "South", "A", -100, 25),
      Row(MkDate(2024, 1), "North", "A", 50, 0),
      Row(MkDate(2024, 1), "South", "B", 60, 30) }

\* sample_data.sort_values('date'): rows in date order; the order of the
\* rows of one date is that of the file.
SortedByDate(t) == \A i \in 1..(Len(t) - 1) : t[i].date <= t[i + 1].date

\* The tables of the model: up to MaxRecords distinct rows of the pool.
Tables ==
    { t \in UNION { [1..n -> Pool] : n \in 1..MaxRecords } :
        /\ SortedByDate(t)
        /\ \A i, j \in 1..Len(t) : i /= j => t[i] /= t[j] }

\* the keys the date multi-select may hand over
MonthKeys == { MonthStr(r.date) : r \in Pool }

\* the dimension names a request may carry: no dimension, two of the
\* categorical columns, and a name that is no column of the table
DimArgs == {"none", "Division", "Type", "Region"}

\* the lists the filter-values multi-select may hand over
FilterValueLists == { <<>>, <<"North">>, <<"South", "A">> }

----------------------------------------------------------------------------
(* pandas *)

Range(s) == { s[i] : i \in 1..Len(s) }

\* df[col].sum()
RECURSIVE SumCol(_, _)
SumCol(df, col) ==
    IF df = <<>> THEN 0 ELSE df[1][col] + SumCol(Tail(df), col)

\* only the first value kept
Unique_FirstOnly(df, col) == IF df = <<>> THEN <<>> ELSE <<df[1][col]>>

\* df[col].unique(): the values in order of first appearance
RECURSIVE Unique(_, _)
Unique(df, col) ==
    IF df = <<>> THEN <<>>
    ELSE LET rest == Unique(SubSeq(df, 1, Len(df) - 1), col)
             v    == df[Len(df)][col]
         IN  IF v \in Range(rest) THEN rest ELSE Append(rest, v)

\* sorted(labels)
RECURSIVE SortLabels(_)
SortLabels(S) ==
    IF S = {} THEN <<>>
    ELSE LET m == CHOOSE x \in S : \A y \in S : ~StrLess(y, x)
         IN  <<m>> \o SortLabels(S \ {m})

\* the sorted index of a groupby over the 'month' strings
RECURSIVE SortMonthStrs(_)
SortMonthStrs(S) ==
    IF S = {} THEN <<>>
    ELSE LET m == CHOOSE x \in S : \A y \in S : ~DigitsLess(y, x)
         IN  <<m>> \o SortMonthStrs(S \ {m})

\* df[df[col] == v]
RowsWith(df, col, v) == SelectSeq(df, LAMBDA r : r[col] = v)

\* df[df[col].isin(values)]
IsIn(df, col, values) == SelectSeq(df, LAMBDA r : r[col] \in Range(values))

\* df['month'] = df['date'].dt.to_period('M').astype(str)
WithMonth(df) ==
    [i \in 1..Len(df) |->
        [c \in DOMAIN df[i] \cup {"month"} |->
            IF c = "month" THEN MonthStr(df[i].date) ELSE df[i][c]]]

\* df.groupby(key)[col].sum() over a label column: a Series, its index sorted
GroupSum(df, key, col) ==
    LET idx == SortLabels({ df[i][key] : i \in 1..Len(df) })
    IN  [i \in 1..Len(idx) |->
            [key |-> idx[i], val |-> SumCol(RowsWith(df, key, idx[i]), col)]]

\* df.groupby('month')[col].sum().reset_index()
MonthlySum(df, col) ==
    LET idx == SortMonthStrs({ df[i].month : i \in 1..Len(df) })
    IN  [i \in 1..Len(idx) |->
            [key |-> idx[i], val |-> SumCol(RowsWith(df, "month", idx[i]), col)]]

SeriesIndex(s) == [i \in 1..Len(s) |-> s[i].key]

SeriesValues(s) == [i \in 1..Len(s) |-> s[i].val]

\* series.get(k, default)
SeriesGet(s, k, default) ==
    IF \E i \in 1..Len(s) : s[i].key = k
    THEN s[CHOOSE i \in 1..Len(s) : s[i].key = k].val
    ELSE default

\* pd.Series(dtype=float)
EmptySeries == <<>>

----------------------------------------------------------------------------
(* The filters shared by the callbacks *)

\* the window taken without its end year
YearFilter_EndExclusive(df, year_range) ==
    SelectSeq(df, LAMBDA r : Year(r.date) >= year_range[1]
                             /\ Year(r.date) < year_range[2])

\* df[(df['date'].dt.year >= year_range[0]) & (df['date'].dt.year <= year_range[1])]
YearFilter(df, year_range) ==
    SelectSeq(df, LAMBDA r : Year(r.date) >= year_range[1]
                             /\ Year(r.date) <= year_range[2])

\* the filter without the test of the list: an empty list excludes every row
ApplyFilter_EmptyExcludes(df, columns, filter_var, filter_values) ==
    IF filter_var /= "none" /\ filter_var \in columns
    THEN IsIn(df, filter_var, filter_values)
    ELSE df

\* if filter_var != "none" and filter_var in df.columns and filter_values:
\*     df = df[df[filter_var].isin(filter_values)]
ApplyFilter(df, columns, filter_var, filter_values) ==
    IF filter_var /= "none" /\ filter_var \in columns /\ filter_values /= <<>>
    THEN IsIn(df, filter_var, filter_values)
    ELSE df

----------------------------------------------------------------------------
(* update_barchart *)

\* selected_var.upper().replace('_', ' ')
UpperName(v) == IF v = "Amount_total" THEN "AMOUNT TOTAL" ELSE "INCOME TOTAL"

\* variable.replace('_', ' ').title()
TitleName(v) == IF v = "Amount_total" THEN "Amount Total" ELSE "Income Total"

\* df.groupby(['month', stack_var])[selected_var].sum().unstack(fill_value=0)
\* and one go.Bar per column: months and categories both in sorted order
StackedTraces(df, stack_var, selected_var) ==
    LET months == SortMonthStrs({ df[i].month : i \in 1..Len(df) })
        cats   == SortLabels({ df[i][stack_var] : i \in 1..Len(df) })
    IN  [c \in 1..Len(cats) |->
            [name |-> cats[c],
             x    |-> months,
             y    |-> [m \in 1..Len(months) |->
                         SumCol(RowsWith(RowsWith(df, "month", months[m]),
                                         stack_var, cats[c]), selected_var)]]]

\* for category in df[group_var].unique(): one go.Bar of its monthly sums
GroupedTraces(df, group_var, selected_var) ==
    LET cats == Unique(df, group_var)
    IN  [c \in 1..Len(cats) |->
            LET monthly_data ==
                    MonthlySum(RowsWith(df, group_var, cats[c]), selected_var)
            IN  [name |-> cats[c],
                 x    |-> SeriesIndex(monthly_data),
                 y    |-> SeriesValues(monthly_data)]]

SimpleTraces(df, selected_var) ==
    LET monthly_data == MonthlySum(df, selected_var)
    IN  << [name |-> UpperName(selected_var),
            x    |-> SeriesIndex(monthly_data),
            y    |-> SeriesValues(monthly_data)] >>

\* The branch of update_barchart: "stack", "group" or "simple"
BarchartBranch(columns, stack_var, group_var) ==
    IF stack_var /= "none" /\ stack_var \in columns THEN "stack"
    ELSE IF group_var /= "none" /\ group_var \in columns THEN "group"
    ELSE "simple"

\* The local df of update_barchart when the figure is drawn
BarchartFrame(data, filter_var, filter_values, year_range) ==
    WithMonth(ApplyFilter(YearFilter(data, year_range), Columns,
                          filter_var, filter_values))

BarchartFigure(df, selected_var, stack_var, group_var) ==
    LET columns == Columns \cup {"month"}
        branch  == BarchartBranch(columns, stack_var, group_var)
    IN  IF branch = "stack"
        THEN [data    |-> IF stack_var \in CategoricalVars
                          THEN StackedTraces(df, stack_var, selected_var)
                          ELSE <<>>,
              barmode |-> "stack",
              by      |-> stack_var]
        ELSE IF branch = "group"
        THEN [data    |-> IF group_var \in CategoricalVars
                          THEN GroupedTraces(df, group_var, selected_var)
                          ELSE <<>>,
              barmode |-> "group",
              by      |-> group_var]
        ELSE [data    |-> SimpleTraces(df, selected_var),
              barmode |-> "unset",
              by      |-> "none"]

\* min_year, max_year and the values of the year range slider
MinYear(data) == Year(data[1].date)

MaxYear(data) == Year(data[Len(data)].date)

YearRanges(data) ==
    { yr \in (MinYear(data)..MaxYear(data)) \X (MinYear(data)..MaxYear(data)) :
        yr[1] <= yr[2] }

----------------------------------------------------------------------------
(* update_amount_income_chart *)

\* the two go.Scatter traces of one monthly table
LinePair(monthly_amount, monthly_income, amount_name, income_name) ==
    << [name |-> amount_name, x |-> SeriesIndex(monthly_amount),
        y |-> SeriesValues(monthly_amount), secondary_y |-> FALSE],
       [name |-> income_name, x |-> SeriesIndex(monthly_income),
        y |-> SeriesValues(monthly_income), secondary_y |-> TRUE] >>

RECURSIVE Flatten(_)
Flatten(ss) == IF ss = <<>> THEN <<>> ELSE Head(ss) \o Flatten(Tail(ss))

\* for category in sorted(df[group_var].unique()): an Amount and an Income trace
GroupedLines(df, group_var) ==
    LET cats == SortLabels(Range(Unique(df, group_var)))
    IN  Flatten([c \in 1..Len(cats) |->
            LET category_data == RowsWith(df, group_var, cats[c])
            IN  LinePair(MonthlySum(category_data, "Amount_total"),
                         MonthlySum(category_data, "Income_total"),
                         <<"Amount", cats[c]>>, <<"Income", cats[c]>>)])

AmountIncomeFigure(df, group_var) ==
    LET columns == Columns \cup {"month"}
    IN  IF group_var /= "none" /\ group_var \in columns
        THEN [data |-> IF group_var \in CategoricalVars
                       THEN GroupedLines(df, group_var) ELSE <<>>,
              by   |-> group_var]
        ELSE [data |-> LinePair(MonthlySum(df, "Amount_total"),
                                MonthlySum(df, "Income_total"),
                                <<"Amount Total">>, <<"Income Total">>),
              by   |-> "none"]

----------------------------------------------------------------------------
(* generate_enhanced_comparison_text_updated *)

\* the thresholds taken as inclusive
EssentiallyEqual_Inclusive(old_val, new_val) ==
    IF old_val /= Zero
    THEN ~RatLt(OnePercent, RatAbs(RatDiv(RatSub(new_val, old_val), old_val)))
    ELSE ~RatLt(OnePercent, RatAbs(new_val))

\* abs((new_val - old_val) / old_val) < 0.01 if old_val != 0 else abs(new_val) < 0.01
EssentiallyEqual(old_val, new_val) ==
    IF old_val /= Zero
    THEN RatLt(RatAbs(RatDiv(RatSub(new_val, old_val), old_val)), OnePercent)
    ELSE RatLt(RatAbs(new_val), OnePercent)

\* the value for old_val = 0 fixed at 100
RelativeChange_FixedSentinel(old_val, new_val, sentinel) ==
    IF old_val /= Zero
    THEN RatMul(RatDiv(RatSub(new_val, old_val), old_val), Hundred)
    ELSE Hundred

\* ((new_val - old_val) / old_val * 100) if old_val != 0 else sentinel
RelativeChange(old_val, new_val, sentinel) ==
    IF old_val /= Zero
    THEN RatMul(RatDiv(RatSub(new_val, old_val), old_val), Hundred)
    ELSE sentinel

\* the clause written after every verb
ChangeClause_Always(change_type, relative_change) ==
    << [direction |-> IF change_type = "increased" THEN "increase" ELSE "decrease",
        pct_txt   |-> Fmt(RatAbs(relative_change), 1)] >>

\* ", which corresponds to a relative {increase|decrease} of {abs(relative_change):.1f}%",
\* written in the else branch only
ChangeClause(change_type, relative_change) ==
    IF change_type = "remained essentially equal" THEN <<>>
    ELSE << [direction |-> IF change_type = "increased"
                           THEN "increase" ELSE "decrease",
             pct_txt   |-> Fmt(RatAbs(relative_change), 1)] >>

\* create_change_sentence: the sentence as its fields, with the locals
\* change_type and relative_change
create_change_sentence(variable, old_val, new_val, date1, date2) ==
    LET change_type ==
            IF EssentiallyEqual(old_val, new_val) THEN "remained essentially equal"
            ELSE IF RatLt(old_val, new_val) THEN "increased"
            ELSE "decreased"
        relative_change ==
            IF change_type = "remained essentially equal" THEN Zero
            ELSE IF change_type = "increased"
            THEN RelativeChange(old_val, new_val, Rat(100))
            ELSE RelativeChange(old_val, new_val, Rat(-100))
    IN  [kind            |-> "change",
         variable        |-> variable,
         old_txt         |-> Fmt(old_val, 1),
         period1         |-> MonthStr(date1),
         change_type     |-> change_type,
         connective      |-> IF change_type = "remained essentially equal"
                             THEN "at" ELSE "to",
         new_txt         |-> Fmt(new_val, 1),
         period2         |-> MonthStr(date2),
         clause          |-> ChangeClause(change_type, relative_change),
         relative_change |-> relative_change]

\* the quotient the other way round
SafeRatio_Inverted(x, y) == IF x /= Zero THEN RatDiv(y, x) ELSE Zero

\* (x / y) if y != 0 else 0
SafeRatio(x, y) == IF y /= Zero THEN RatDiv(x, y) ELSE Zero

\* the stability test taken as inclusive
RatioClass_Inclusive(ratio_change) ==
    IF ~RatLt(OnePercent, RatAbs(ratio_change)) THEN "stable"
    ELSE IF RatLt(Zero, ratio_change) THEN "improved"
    ELSE "declined"

\* if abs(ratio_change) < 0.01: ... elif ratio_change > 0: ... else: ...
RatioClass(ratio_change) ==
    IF RatLt(RatAbs(ratio_change), OnePercent) THEN "stable"
    ELSE IF RatLt(Zero, ratio_change) THEN "improved"
    ELSE "declined"

\* the ratio sentence
RatioSentence(amount_old, amount_new, income_old, income_new) ==
    LET ratio_old    == SafeRatio(amount_old, income_old)
        ratio_new    == SafeRatio(amount_new, income_new)
        ratio_change == RatSub(ratio_new, ratio_old)
        cls          == RatioClass(ratio_change)
    IN  [kind         |-> "ratio",
         class        |-> cls,
         ratio_old    |-> ratio_old,
         ratio_new    |-> ratio_new,
         ratio_change |-> ratio_change,
         numbers_txt  |-> IF cls = "stable" THEN <<Fmt(ratio_old, 2)>>
                          ELSE <<Fmt(ratio_old, 2), Fmt(ratio_new, 2),
                                 Fmt(RatAbs(ratio_change), 2)>>]

\* the shares left as fractions of 1
Proportions_NoPercent(groups, total) ==
    IF total > 0
    THEN [i \in 1..Len(groups) |->
            [key |-> groups[i].key,
             val |-> RatDiv(Rat(groups[i].val), Rat(total))]]
    ELSE EmptySeries

\* (groups / total * 100) if total > 0 else pd.Series(dtype=float)
Proportions(groups, total) ==
    IF total > 0
    THEN [i \in 1..Len(groups) |->
            [key |-> groups[i].key,
             val |-> RatMul(RatDiv(Rat(groups[i].val), Rat(total)), Hundred)]]
    ELSE EmptySeries

\* the first test taken as prop_change >= 0
ChangeDesc_NonStrict(prop_change) ==
    IF ~RatLt(prop_change, Zero) THEN "increased" ELSE "decreased"

\* "increased" if prop_change > 0 else "decreased" if prop_change < 0 else "remained stable"
ChangeDesc(prop_change) ==
    IF RatLt(Zero, prop_change) THEN "increased"
    ELSE IF RatLt(prop_change, Zero) THEN "decreased"
    ELSE "remained stable"

\* the bullet lines of one metric: for group in sorted(all_groups)
ProportionLines(df1, df2, group_var, metric) ==
    LET groups1    == GroupSum(df1, group_var, metric)
        props1     == Proportions(groups1, SumCol(df1, metric))
        groups2    == GroupSum(df2, group_var, metric)
        props2     == Proportions(groups2, SumCol(df2, metric))
        all_groups == SortLabels(Range(SeriesIndex(props1))
                                 \cup Range(SeriesIndex(props2)))
    IN  [g \in 1..Len(all_groups) |->
            LET group       == all_groups[g]
                prop1       == SeriesGet(props1, group, Zero)
                prop2       == SeriesGet(props2, group, Zero)
                amount1     == SeriesGet(groups1, group, 0)
                amount2     == SeriesGet(groups2, group, 0)
                prop_change == RatSub(prop2, prop1)
            IN  [kind        |-> "line",
                 metric      |-> metric,
                 group       |-> group,
                 prop1       |-> prop1,
                 prop2       |-> prop2,
                 prop_change |-> prop_change,
                 change_desc |-> ChangeDesc(prop_change),
                 amount1     |-> amount1,
                 amount2     |-> amount2,
                 numbers_txt |-> <<Fmt(prop1, 1), Fmt(prop2, 1),
                                   Fmt(RatAbs(prop_change), 1),
                                   Fmt(Rat(amount1), 1), Fmt(Rat(amount2), 1)>>]]

\* if group_var != "none" and group_var in [...] and not df1.empty and not df2.empty
HasProportionSection(group_var, df1, df2) ==
    /\ group_var /= "none"
    /\ group_var \in CategoricalVars
    /\ df1 /= <<>>
    /\ df2 /= <<>>

\* the footer with its third prompt left out
SummaryFooter_TwoPrompts ==
    << [kind |-> "header", title |-> "SUMMARY:"],
       [kind |-> "summary",
        prompts |-> << "[Add your key insights here]",
                       "[Note any significant patterns]" >>] >>

\* the summary section appended last
SummaryFooter ==
    << [kind |-> "header", title |-> "SUMMARY:"],
       [kind |-> "summary",
        prompts |-> << "[Add your key insights here]",
                       "[Note any significant patterns]",
                       "[Record actionable findings]" >>] >>

\* the text, as the sequence of its parts
generate_enhanced_comparison_text_updated(amount_old, amount_new, income_old, income_new, date1, date2, filter_var, filter_values, group_var, df1, df2) ==
    (IF filter_var /= "none" /\ filter_values /= <<>>
     THEN << [kind |-> "filter", filter_var |-> filter_var,
              filter_values |-> filter_values] >>
     ELSE <<>>)
    \o << [kind |-> "header", title |-> "COMPARISON ANALYSIS:"],
          create_change_sentence("Amount Total", amount_old, amount_new, date1, date2),
          create_change_sentence("Income Total", income_old, income_new, date1, date2),
          RatioSentence(amount_old, amount_new, income_old, income_new) >>
    \o (IF HasProportionSection(group_var, df1, df2)
        THEN << [kind |-> "header", title |-> "PROPORTION ANALYSIS BY GROUPS:"],
                [kind |-> "header", title |-> "Amount Total Proportion Changes:"] >>
             \o ProportionLines(df1, df2, group_var, "Amount_total")
             \o << [kind |-> "header", title |-> "Income Total Proportion Changes:"] >>
             \o ProportionLines(df1, df2, group_var, "Income_total")
        ELSE <<>>)
    \o SummaryFooter

----------------------------------------------------------------------------
(* create_dumbbell_chart_updated *)

\* the scaled size without the clamp
MarkerSize_Unclamped(val, max_val) ==
    RatAdd(RatMul(RatDiv(Rat(val), Rat(max_val)), Rat(25)), Rat(5))

\* max(10, min(30, (val / max_val) * 25 + 5))
MarkerSize(val, max_val) ==
    RatMax(Rat(10),
           RatMin(Rat(30),
                  RatAdd(RatMul(RatDiv(Rat(val), Rat(max_val)), Rat(25)), Rat(5))))

\* the larger of the two values taken as it is
MaxVal_Unguarded(val1, val2) == IF val1 > val2 THEN val1 ELSE val2

\* max(val1, val2) if max(val1, val2) > 0 else 1
MaxVal(val1, val2) ==
    LET larger == IF val1 > val2 THEN val1 ELSE val2
    IN  IF larger > 0 THEN larger ELSE 1

\* group_data and proportions of one date: empty Series for an empty frame
DumbbellGroups(df, group_var, variable) ==
    IF df /= <<>> THEN GroupSum(df, group_var, variable) ELSE EmptySeries

DumbbellProportions(df, group_var, variable) ==
    IF df /= <<>>
    THEN Proportions(GroupSum(df, group_var, variable), SumCol(df, variable))
    ELSE EmptySeries

\* for i, group in enumerate(sorted(all_groups)): the line and the two markers
DumbbellRows(df1, df2, variable, group_var) ==
    LET group1_data  == DumbbellGroups(df1, group_var, variable)
        proportions1 == DumbbellProportions(df1, group_var, variable)
        group2_data  == DumbbellGroups(df2, group_var, variable)
        proportions2 == DumbbellProportions(df2, group_var, variable)
        all_groups   == SortLabels(Range(SeriesIndex(proportions1))
                                   \cup Range(SeriesIndex(proportions2)))
    IN  [i \in 1..Len(all_groups) |->
            LET group   == all_groups[i]
                val1    == SeriesGet(group1_data, group, 0)
                val2    == SeriesGet(group2_data, group, 0)
                max_val == MaxVal(val1, val2)
            IN  [group |-> group,
                 prop1 |-> SeriesGet(proportions1, group, Zero),
                 prop2 |-> SeriesGet(proportions2, group, Zero),
                 val1  |-> val1,
                 val2  |-> val2,
                 max_val |-> max_val,
                 size1 |-> MarkerSize(val1, max_val),
                 size2 |-> MarkerSize(val2, max_val),
                 y_pos |-> i - 1]]

\* the chart drawn by Division when no grouping variable is selected
create_dumbbell_chart_fallback(df1, df2, variable, date1, date2, group_var) ==
    LET by   == IF group_var \in CategoricalVars THEN group_var ELSE "Division"
        rows == DumbbellRows(df1, df2, variable, by)
    IN  IF rows = <<>>
        THEN [kind |-> "nodata",
              text |-> "No data available for selected dates and grouping"]
        ELSE [kind    |-> "dumbbell",
              rows    |-> rows,
              legend  |-> <<MonthStr(date1), MonthStr(date2)>>,
              by      |-> by]

create_dumbbell_chart_updated(df1, df2, variable, date1, date2, group_var) ==
    IF group_var = "none"
    THEN [kind |-> "placeholder",
          text |-> "Select a grouping variable to see proportion analysis"]
    ELSE IF (df1 /= <<>> \/ df2 /= <<>>) /\ group_var \notin Columns
    THEN [kind |-> "raise", error |-> "KeyError"]
    ELSE LET rows == DumbbellRows(df1, df2, variable, group_var)
         IN  IF rows = <<>>
             THEN [kind |-> "nodata",
                   text |-> "No data available for selected dates and grouping"]
             ELSE [kind    |-> "dumbbell",
                   rows    |-> rows,
                   legend  |-> <<MonthStr(date1), MonthStr(date2)>>,
                   by      |-> group_var]

----------------------------------------------------------------------------
(* update_enhanced_comparison_content *)

\* the go.Bar traces of one breakdown: categories = sorted(all_categories),
\* val = sum of the category's rows, 0 when the frame has none
CategoryBars(df1, df2, by_var, variable, date_labels) ==
    LET categories == SortLabels(Range(Unique(df1, by_var))
                                 \cup Range(Unique(df2, by_var)))
    IN  [c \in 1..Len(categories) |->
            [name |-> categories[c],
             x    |-> date_labels,
             y    |-> << SumCol(RowsWith(df1, by_var, categories[c]), variable),
                         SumCol(RowsWith(df2, by_var, categories[c]), variable) >>]]

\* The branch of create_comparison_chart_updated: "group", "stack" or "simple"
ComparisonBranch(columns, stack_var, group_var) ==
    IF group_var /= "none" /\ group_var \in columns THEN "group"
    ELSE IF stack_var /= "none" /\ stack_var \in columns THEN "stack"
    ELSE "simple"

create_comparison_chart_updated(df1, df2, variable, date1, date2, stack_var, group_var) ==
    LET date_labels == <<MonthStr(date1), MonthStr(date2)>>
        branch      == ComparisonBranch(Columns, stack_var, group_var)
        by_var      == IF branch = "group" THEN group_var ELSE stack_var
    IN  IF branch = "simple"
        THEN [data    |-> << [name |-> TitleName(variable),
                              x    |-> date_labels,
                              y    |-> <<SumCol(df1, variable),
                                         SumCol(df2, variable)>>] >>,
              barmode |-> "unset",
              by      |-> "none"]
        ELSE IF by_var \in CategoricalVars
        THEN [data    |-> CategoryBars(df1, df2, by_var, variable, date_labels),
              barmode |-> branch,
              by      |-> by_var]
        ELSE [data |-> <<>>, barmode |-> "unset", by |-> by_var]

\* the dates taken in the order of the selection, unsorted
SortedDates_Unsorted(selected_dates) ==
    <<ParseMonth(selected_dates[1]), ParseMonth(selected_dates[2])>>

\* date1, date2 = sorted([pd.to_datetime(date + '-01') for date in selected_dates])
SortedDates(selected_dates) ==
    LET a == ParseMonth(selected_dates[1])
        b == ParseMonth(selected_dates[2])
    IN  IF b < a THEN <<b, a>> ELSE <<a, b>>

\* df[df['date'].dt.to_period('M') == date.to_period('M')]
Snapshot(df, date) == SelectSeq(df, LAMBDA r : r.date = date)

\* the value box of one percentage or ratio change
ValueBox(title, change, decimals, old_val, new_val) ==
    [title    |-> title,
     change   |-> change,
     sign     |-> IF RatLt(change, Zero) THEN "-" ELSE "+",
     change_txt |-> Fmt(RatAbs(change), decimals),
     color    |-> IF ~RatLt(change, Zero) THEN "green" ELSE "red",
     icon     |-> IF ~RatLt(change, Zero) THEN "trending-up" ELSE "trending-down",
     range_txt |-> <<Fmt(old_val, decimals), Fmt(new_val, decimals)>>]

\* the six outputs when exactly two dates are not selected
InsufficientSelection ==
    LET empty_fig == [kind |-> "empty",
                      text |-> "Please select exactly 2 dates for comparison"]
    IN  [kind            |-> "outputs",
         value_boxes     |-> [kind |-> "prompt",
                              text |-> "Please select exactly 2 dates to see comparison metrics"],
         amount_chart    |-> empty_fig,
         income_chart    |-> empty_fig,
         amount_dumbbell |-> empty_fig,
         income_dumbbell |-> empty_fig,
         comparison_text |-> << [kind |-> "default",
                                 title |-> "Comparison Analysis:"] >>]

\* The locals of the callback once two dates are selected
ComparisonLocals(data, selected_dates, filter_var, filter_values) ==
    LET dates      == SortedDates(selected_dates)
        date1      == dates[1]
        date2      == dates[2]
        df         == data
        df_date1   == ApplyFilter(Snapshot(df, date1), Columns, filter_var, filter_values)
        df_date2   == ApplyFilter(Snapshot(df, date2), Columns, filter_var, filter_values)
        amount_old == Rat(IF df_date1 /= <<>> THEN SumCol(df_date1, "Amount_total") ELSE 0)
        amount_new == Rat(IF df_date2 /= <<>> THEN SumCol(df_date2, "Amount_total") ELSE 0)
        income_old == Rat(IF df_date1 /= <<>> THEN SumCol(df_date1, "Income_total") ELSE 0)
        income_new == Rat(IF df_date2 /= <<>> THEN SumCol(df_date2, "Income_total") ELSE 0)
        ratio_old  == SafeRatio(amount_old, income_old)
        ratio_new  == SafeRatio(amount_new, income_new)
    IN  [date1 |-> date1, date2 |-> date2,
         df_date1 |-> df_date1, df_date2 |-> df_date2,
         amount_old |-> amount_old, amount_new |-> amount_new,
         income_old |-> income_old, income_new |-> income_new,
         amount_change |-> RelativeChange(amount_old, amount_new, Zero),
         income_change |-> RelativeChange(income_old, income_new, Zero),
         ratio_old |-> ratio_old, ratio_new |-> ratio_new,
         ratio_difference |-> RatSub(ratio_new, ratio_old)]

\* The six outputs computed from the locals; an exception raised by a helper
\* ends the callback without outputs
ComparisonOutputs(l, filter_var, filter_values, stack_var, group_var) ==
    LET amount_dumbbell ==
            create_dumbbell_chart_updated(l.df_date1, l.df_date2, "Amount_total",
                                          l.date1, l.date2, group_var)
        income_dumbbell ==
            create_dumbbell_chart_updated(l.df_date1, l.df_date2, "Income_total",
                                          l.date1, l.date2, group_var)
    IN  IF amount_dumbbell.kind = "raise" THEN amount_dumbbell
        ELSE
          [kind |-> "outputs",
           value_boxes |->
              [kind  |-> "boxes",
               boxes |-> << ValueBox("Amount Change", l.amount_change, 1,
                                     l.amount_old, l.amount_new),
                            ValueBox("Income Change", l.income_change, 1,
                                     l.income_old, l.income_new),
                            ValueBox("Amount/Income Ratio Change", l.ratio_difference,
                                     2, l.ratio_old, l.ratio_new) >>],
           amount_chart |->
              create_comparison_chart_updated(l.df_date1, l.df_date2, "Amount_total",
                                              l.date1, l.date2, stack_var, group_var),
           income_chart |->
              create_comparison_chart_updated(l.df_date1, l.df_date2, "Income_total",
                                              l.date1, l.date2, stack_var, group_var),
           amount_dumbbell |-> amount_dumbbell,
           income_dumbbell |-> income_dumbbell,
           comparison_text |->
              generate_enhanced_comparison_text_updated(l.amount_old, l.amount_new,
                  l.income_old, l.income_new, l.date1, l.date2, filter_var,
                  filter_values, group_var, l.df_date1, l.df_date2)]

\* the test taken as 'fewer than two'
InsufficientDates_FewerThanTwo(selected_dates) == Len(selected_dates) < 2

\* if not selected_dates or len(selected_dates) != 2
InsufficientDates(selected_dates) ==
    selected_dates = <<>> \/ Len(selected_dates) /= 2

\* the lists the date multi-select may hand over: distinct keys, in the
\* order the user picked them
DateSelections ==
    { s \in UNION { [1..n -> MonthKeys] : n \in 0..MaxSelected } :
        \A i, j \in 1..Len(s) : i /= j => s[i] /= s[j] }

Idle == [fn |-> "idle"]

\* the two views that carry a filter selector and a filter-values selector
Views == {"history", "comparison"}

\* the two save buttons
Buttons == {"save-analysis-btn", "save-comparison-btn"}

\* the label a save button is laid out with
UnsavedLabel(button) ==
    IF button = "save-analysis-btn" THEN "Save Analysis" ELSE "Save Comparison"

\* the properties of the page's components as the layout creates them
InitialUI ==
    [filter_selector        |-> [v \in Views |-> "none"],
     filter_values_data     |-> [v \in Views |-> <<>>],
     filter_values_disabled |-> [v \in Views |-> TRUE],
     filter_values          |-> [v \in Views |-> <<>>],
     main_tabs              |-> "history",
     date_options           |-> <<>>,
     selected_dates         |-> <<>>,
     comparison_shown       |-> <<>>,
     today_display          |-> "block",
     scenario_display       |-> "none",
     nav_today_active       |-> TRUE,
     nav_scenario_active    |-> FALSE,
     save_label             |-> [b \in Buttons |-> UnsavedLabel(b)],
     n_clicks               |-> [b \in Buttons |-> 0],
     textbox_edited         |-> [b \in Buttons |-> FALSE]]

\* the assignment df['month'] = ... taken to act on the global's own object
GlobalAfterAssignment_SameObject(data, df) == df

\* the filtered frame, its 'month' column dropped, taken to replace the global
GlobalAfterAssignment_Rebound(data, df) ==
    [i \in 1..Len(df) |-> [c \in Columns |-> df[i][c]]]

\* the global after a callback assigned df['month'] = ...: df was bound to
\* sample_data.copy() and then to the results of boolean indexing, objects
\* other than the global's, which the assignment therefore does not reach
GlobalAfterAssignment(data, df) == data

\* the values of the 'value' property of main-tabs
Tabs == {"history", "comparison", "tool"}

\* the selector reset to the first value of the column only
FilterValuesOutputs_FirstValue(data, filter_var) ==
    IF filter_var \in CategoricalVars
    THEN [data     |-> SortLabels(Range(Unique(data, filter_var))),
          disabled |-> FALSE,
          value    |-> <<Unique(data, filter_var)[1]>>]
    ELSE [data |-> <<>>, disabled |-> TRUE, value |-> <<>>]

\* update_filter_values and update_comparison_filter_values: the options,
\* the disabled flag and the selected values of the filter-values selector
FilterValuesOutputs(data, filter_var) ==
    IF filter_var = "none"
    THEN [data |-> <<>>, disabled |-> TRUE, value |-> <<>>]
    ELSE IF filter_var \in CategoricalVars
    THEN [data     |-> SortLabels(Range(Unique(data, filter_var))),
          disabled |-> FALSE,
          value    |-> Unique(data, filter_var)]
    ELSE [data |-> <<>>, disabled |-> TRUE, value |-> <<>>]

\* one option per record of the table instead of one per month
ComparisonDateOptions_PerRecord(data, active_tab) ==
    IF active_tab = "comparison"
    THEN [i \in 1..Len(data) |-> MonthStr(data[i].date)]
    ELSE <<>>

\* populate_comparison_dates: the options of the date selector
ComparisonDateOptions(data, active_tab) ==
    IF active_tab = "comparison"
    THEN SortMonthStrs({ MonthStr(data[i].date) : i \in 1..Len(data) })
    ELSE <<>>

UpdateFilterValues ==
    /\ frame.fn = "idle"
    /\ \E filter_var \in DimArgs :
          frame' = [fn   |-> "update_filter_values",
                    args |-> [filter_var |-> filter_var],
                    ret  |-> FilterValuesOutputs(sample_data, filter_var)]
    /\ sample_data' = sample_data
    /\ ui' = ui

UpdateComparisonFilterValues ==
    /\ frame.fn = "idle"
    /\ \E filter_var \in DimArgs :
          frame' = [fn   |-> "update_comparison_filter_values",
                    args |-> [filter_var |-> filter_var],
                    ret  |-> FilterValuesOutputs(sample_data, filter_var)]
    /\ sample_data' = sample_data
    /\ ui' = ui

PopulateComparisonDates ==
    /\ frame.fn = "idle"
    /\ \E active_tab \in Tabs :
          frame' = [fn   |-> "populate_comparison_dates",
                    args |-> [active_tab |-> active_tab],
                    ret  |-> ComparisonDateOptions(sample_data, active_tab)]
    /\ sample_data' = sample_data
    /\ ui' = ui

UpdateBarchart ==
    /\ frame.fn = "idle"
    /\ \E selected_var \in MetricVars, filter_var \in DimArgs,
          filter_values \in FilterValueLists, stack_var \in DimArgs,
          group_var \in DimArgs, year_range \in YearRanges(sample_data) :
        LET df == BarchartFrame(sample_data, filter_var, filter_values, year_range)
        IN  /\ frame' = [fn   |-> "update_barchart",
                      args |-> [selected_var |-> selected_var,
                                filter_var |-> filter_var,
                                filter_values |-> filter_values,
                                stack_var |-> stack_var,
                                group_var |-> group_var,
                                year_range |-> year_range],
                      df   |-> df,
                      ret  |-> BarchartFigure(df, selected_var, stack_var, group_var)]
            /\ sample_data' = GlobalAfterAssignment(sample_data, df)
            /\ ui' = ui

UpdateAmountIncomeChart ==
    /\ frame.fn = "idle"
    /\ \E filter_var \in DimArgs, filter_values \in FilterValueLists,
          group_var \in DimArgs, year_range \in YearRanges(sample_data) :
        LET df == BarchartFrame(sample_data, filter_var, filter_values, year_range)
        IN  /\ frame' = [fn   |-> "update_amount_income_chart",
                      args |-> [filter_var |-> filter_var,
                                filter_values |-> filter_values,
                                group_var |-> group_var,
                                year_range |-> year_range],
                      df   |-> df,
                      ret  |-> AmountIncomeFigure(df, group_var)]
            /\ sample_data' = GlobalAfterAssignment(sample_data, df)
            /\ ui' = ui

UpdateEnhancedComparisonContent ==
    /\ frame.fn = "idle"
    /\ \E selected_dates \in DateSelections, filter_var \in DimArgs,
          filter_values \in FilterValueLists, stack_var \in DimArgs,
          group_var \in DimArgs :
        LET args == [selected_dates |-> selected_dates,
                     filter_var |-> filter_var,
                     filter_values |-> filter_values,
                     stack_var |-> stack_var,
                     group_var |-> group_var]
        IN  IF InsufficientDates(selected_dates)
            THEN frame' = [fn     |-> "update_enhanced_comparison_content",
                           args   |-> args,
                           branch |-> "insufficient",
                           ret    |-> InsufficientSelection]
            ELSE LET l == ComparisonLocals(sample_data, selected_dates,
                                           filter_var, filter_values)
                 IN  frame' = [fn     |-> "update_enhanced_comparison_content",
                               args   |-> args,
                               branch |-> "compare",
                               loc    |-> l,
                               ret    |-> ComparisonOutputs(l, filter_var,
                                              filter_values, stack_var, group_var)]
    /\ sample_data' = sample_data
    /\ ui' = ui

\* the sums a direct call of the text generator is given
SumValues ==
    { Zero, <<1, 200>>, <<1, 100>>, <<-1, 100>>, Rat(100), <<201, 2>>,
      Rat(101), Rat(102), Rat(150), Rat(-100), Rat(-102) }

IncomeValues == { Zero, Rat(50), Rat(75) }

\* generate_enhanced_comparison_text_updated called on its own: no filter,
\* no grouping, the two frames those of the two months of the table
GenerateText ==
    /\ frame.fn = "idle"
    /\ \E amount_old \in SumValues, amount_new \in SumValues,
          income_old \in IncomeValues, income_new \in IncomeValues :
        LET date1 == sample_data[1].date
            date2 == sample_data[Len(sample_data)].date
        IN  frame' = [fn   |-> "generate_enhanced_comparison_text_updated",
                      args |-> [amount_old |-> amount_old,
                                amount_new |-> amount_new,
                                income_old |-> income_old,
                                income_new |-> income_new,
                                date1 |-> date1, date2 |-> date2,
                                filter_var |-> "none", filter_values |-> <<>>,
                                group_var |-> "none"],
                      ret  |-> generate_enhanced_comparison_text_updated(
                                  amount_old, amount_new, income_old, income_new,
                                  date1, date2, "none", <<>>, "none",
                                  Snapshot(sample_data, date1),
                                  Snapshot(sample_data, date2))]
    /\ sample_data' = sample_data
    /\ ui' = ui

\* the response is sent; the server waits for the next request
Return ==
    /\ frame.fn /= "idle"
    /\ frame' = Idle
    /\ sample_data' = sample_data
    /\ ui' = ui

Init ==
    /\ sample_data \in Tables
    /\ frame = Idle
    /\ ui = InitialUI

Next ==
    \/ UpdateBarchart
    \/ UpdateAmountIncomeChart
    \/ UpdateEnhancedComparisonContent
    \/ Return

Spec == Init /\ [][Next]_vars

\* The history view alone
NextHistory ==
    \/ UpdateBarchart
    \/ UpdateAmountIncomeChart
    \/ Return

SpecHistory == Init /\ [][NextHistory]_vars

\* The comparison view alone
NextComparison ==
    \/ UpdateEnhancedComparisonContent
    \/ Return

SpecComparison == Init /\ [][NextComparison]_vars

\* Every callback that reads the table
NextServer ==
    \/ UpdateBarchart
    \/ UpdateAmountIncomeChart
    \/ UpdateEnhancedComparisonContent
    \/ UpdateFilterValues
    \/ UpdateComparisonFilterValues
    \/ PopulateComparisonDates
    \/ Return

SpecServer == Init /\ [][NextServer]_vars


\* The text generator alone, on a table of one row
InitText ==
    /\ sample_data \in { t \in Tables : Len(t) = 1 }
    /\ frame = Idle
    /\ ui = InitialUI

NextText ==
    \/ GenerateText
    \/ Return

SpecText == InitText /\ [][NextText]_vars

----------------------------------------------------------------------------
(* Reading a frame *)

IsComparison == frame.fn = "update_enhanced_comparison_content"

\* the callback went past the two-dates test and returned its six outputs
Compared == IsComparison /\ frame.branch = "compare" /\ frame.ret.kind = "outputs"

IsBarchart == frame.fn = "update_barchart"

IsAmountIncome == frame.fn = "update_amount_income_chart"

IsText == frame.fn = "generate_enhanced_comparison_text_updated"

PartsOfKind(text, k) == SelectSeq(text, LAMBDA part : part.kind = k)

\* a sequence is strictly increasing in the order of labels / of dates
LabelsAscending(s) == \A i \in 1..(Len(s) - 1) : StrLess(s[i], s[i + 1])

MonthsChronological(s) ==
    \A i \in 1..(Len(s) - 1) : ParseMonth(s[i]) < ParseMonth(s[i + 1])

----------------------------------------------------------------------------
(* C1: chronological ordering of the two selected periods *)

\* C1: for two distinct selected period keys the callback takes the earlier
\* month as 'old' and the later one as 'new', and every local and every
\* output is the same as for the selection in the opposite order.
C1_SelectionOrderIrrelevant ==
    (IsComparison /\ frame.branch = "compare") =>
        LET a   == frame.args
            p   == a.selected_dates[1]
            q   == a.selected_dates[2]
            rev == ComparisonLocals(sample_data, <<q, p>>, a.filter_var,
                                    a.filter_values)
        IN  /\ frame.loc.date1 < frame.loc.date2
            /\ {frame.loc.date1, frame.loc.date2} = {ParseMonth(p), ParseMonth(q)}
            /\ frame.loc = rev
            /\ frame.ret = ComparisonOutputs(rev, a.filter_var, a.filter_values,
                                             a.stack_var, a.group_var)

\* the user picked the later month first; both months have rows and differ
C1_Witness ==
    /\ Compared
    /\ DigitsLess(frame.args.selected_dates[2], frame.args.selected_dates[1])
    /\ frame.loc.df_date1 /= <<>>
    /\ frame.loc.df_date2 /= <<>>
    /\ frame.loc.amount_old /= frame.loc.amount_new
    /\ frame.loc.date1 = ParseMonth(frame.args.selected_dates[2])

----------------------------------------------------------------------------
(* C2: percentage change from a zero old sum *)

\* the percentage the claim asks for when the old sum is 0
SentinelFromZero(new_val) ==
    IF new_val = Zero THEN Zero
    ELSE IF RatLt(Zero, new_val) THEN Rat(100) ELSE Rat(-100)

\* C2: when the old sum of a metric is 0, the percentage change is 0 for a
\* new sum of 0, +100 for a positive and -100 for a negative new sum, in the
\* value box and in the change sentence alike.
C2_SentinelEverywhere ==
    Compared =>
        LET l         == frame.loc
            sentences == PartsOfKind(frame.ret.comparison_text, "change")
        IN  /\ l.amount_old = Zero =>
                  /\ l.amount_change = SentinelFromZero(l.amount_new)
                  /\ frame.ret.value_boxes.boxes[1].change = SentinelFromZero(l.amount_new)
                  /\ sentences[1].relative_change = SentinelFromZero(l.amount_new)
            /\ l.income_old = Zero =>
                  /\ l.income_change = SentinelFromZero(l.income_new)
                  /\ frame.ret.value_boxes.boxes[2].change = SentinelFromZero(l.income_new)
                  /\ sentences[2].relative_change = SentinelFromZero(l.income_new)

----------------------------------------------------------------------------
(* C3: the ratio of a snapshot *)

\* r is x / y, stated without dividing
IsQuotient(r, x, y) == r[2] > 0 /\ r[1] * y[1] * x[2] = x[1] * y[2] * r[2]

\* r is "x / y when y is not 0, else 0"
IsGuardedQuotient(r, x, y) == IF y = Zero THEN r = Zero ELSE IsQuotient(r, x, y)

\* C3 as stated: the ratio of each snapshot is income / amount when the
\* amount sum is not 0 and 0 otherwise, in the value box and in the text.
C3_IncomeOverAmount ==
    Compared =>
        LET l     == frame.loc
            ratio == PartsOfKind(frame.ret.comparison_text, "ratio")[1]
        IN  /\ IsGuardedQuotient(l.ratio_old, l.income_old, l.amount_old)
            /\ IsGuardedQuotient(l.ratio_new, l.income_new, l.amount_new)
            /\ IsGuardedQuotient(ratio.ratio_old, l.income_old, l.amount_old)
            /\ IsGuardedQuotient(ratio.ratio_new, l.income_new, l.amount_new)

\* C3 (amended): the ratio of each snapshot is amount / income when the
\* income sum is not 0 and 0 when it is 0 (amount 100, income 50 gives 2),
\* in the value box and in the ratio sentence, which show the same numbers.
C3_AmountOverIncome ==
    Compared =>
        LET l     == frame.loc
            ratio == PartsOfKind(frame.ret.comparison_text, "ratio")[1]
            box   == frame.ret.value_boxes.boxes[3]
        IN  /\ IsGuardedQuotient(l.ratio_old, l.amount_old, l.income_old)
            /\ IsGuardedQuotient(l.ratio_new, l.amount_new, l.income_new)
            /\ IsGuardedQuotient(ratio.ratio_old, l.amount_old, l.income_old)
            /\ IsGuardedQuotient(ratio.ratio_new, l.amount_new, l.income_new)
            /\ box.range_txt = <<Fmt(l.ratio_old, 2), Fmt(l.ratio_new, 2)>>
            /\ (l.amount_old = Rat(100) /\ l.income_old = Rat(50))
                  => (l.ratio_old = Rat(2) /\ box.range_txt[1] = 200)

\* amount 100 and income 50 in the old month, a zero income sum with a
\* non-zero amount in the new month
C3_Witness ==
    /\ Compared
    /\ frame.loc.amount_old = Rat(100)
    /\ frame.loc.income_old = Rat(50)
    /\ frame.loc.ratio_old = Rat(2)
    /\ frame.loc.income_new = Zero
    /\ frame.loc.amount_new /= Zero
    /\ frame.loc.ratio_new = Zero

----------------------------------------------------------------------------
(* C4: the classification of a change *)

\* the class the claim gives to a change from old_val to new_val
ClaimedChangeType(old_val, new_val) ==
    LET stable ==
            \/ /\ old_val /= Zero
               /\ RatLt(RatMul(Rat(100), RatAbs(RatSub(new_val, old_val))),
                        RatAbs(old_val))
            \/ /\ old_val = Zero
               /\ RatLt(RatMul(Rat(100), RatAbs(new_val)), Rat(1))
    IN  IF stable THEN "remained essentially equal"
        ELSE IF RatLt(old_val, new_val) THEN "increased"
        ELSE "decreased"

\* C4: a metric 'remained essentially equal' exactly when old /= 0 and
\* |new - old| / |old| < 0.01, or old = 0 and |new| < 0.01; otherwise it
\* 'increased' when new > old and 'decreased' when new < old.  100 -> 100.5
\* is stable, 100 -> 102 increased, and a change of exactly 1% is not stable.
C4_ChangeClassification ==
    IsText =>
        LET a         == frame.args
            sentences == PartsOfKind(frame.ret, "change")
        IN  /\ Len(sentences) = 2
            /\ sentences[1].change_type = ClaimedChangeType(a.amount_old, a.amount_new)
            /\ sentences[2].change_type = ClaimedChangeType(a.income_old, a.income_new)
            /\ sentences[1].change_type = "decreased" => RatLt(a.amount_new, a.amount_old)
            /\ (a.amount_old = Rat(100) /\ a.amount_new = <<201, 2>>)
                  => sentences[1].change_type = "remained essentially equal"
            /\ (a.amount_old = Rat(100) /\ a.amount_new = Rat(102))
                  => sentences[1].change_type = "increased"
            /\ (a.amount_old = Rat(100) /\ a.amount_new = Rat(101))
                  => sentences[1].change_type = "increased"

\* exactly 1% up from 100 is reported as an increase, while the income,
\* unchanged from 0, is stable
C4_Witness ==
    /\ IsText
    /\ frame.args.amount_old = Rat(100)
    /\ frame.args.amount_new = Rat(101)
    /\ PartsOfKind(frame.ret, "change")[1].change_type = "increased"
    /\ frame.args.income_old = Zero
    /\ frame.args.income_new = Zero
    /\ PartsOfKind(frame.ret, "change")[2].change_type = "remained essentially equal"

----------------------------------------------------------------------------
(* Reading the per-category breakdowns *)

\* the labels of a column over the two snapshots
LabelsOf(df1, df2, col) ==
    { df1[i][col] : i \in 1..Len(df1) } \cup { df2[i][col] : i \in 1..Len(df2) }

\* the bullet lines of one metric in a text
LinesOf(text, metric) ==
    SelectSeq(text, LAMBDA part : part.kind = "line" /\ part.metric = metric)

GroupsOf(rows) == [i \in 1..Len(rows) |-> rows[i].group]

\* the rows of a dumbbell figure (none for a placeholder)
RowsOf(fig) == IF fig.kind = "dumbbell" THEN fig.rows ELSE <<>>

\* a sequence lists every element of S exactly once
ListsExactlyOnce(seq, S) == Range(seq) = S /\ Len(seq) = Cardinality(S)

RECURSIVE RatSum(_)
RatSum(seq) == IF seq = <<>> THEN Zero ELSE RatAdd(Head(seq), RatSum(Tail(seq)))

\* the sum of a category's rows in a snapshot, 0 when it has none
CategorySum(df, col, label, metric) == SumCol(RowsWith(df, col, label), metric)

GroupingActive == Compared /\ frame.args.group_var \in CategoricalVars

----------------------------------------------------------------------------
(* C5: union-of-categories completeness *)

\* C5: every category label of the group dimension present in either
\* snapshot appears exactly once in the narrative proportion lines of each
\* metric and in the rows of each dumbbell chart, with 0 for the side where
\* it is absent.
C5_EveryCategoryListed ==
    GroupingActive =>
        LET l      == frame.loc
            g      == frame.args.group_var
            labels == LabelsOf(l.df_date1, l.df_date2, g)
            absent(df, row, val) ==
                (\A i \in 1..Len(df) : df[i][g] /= row.group) => val = 0
        IN  /\ \A metric \in MetricVars :
                 LET lines == LinesOf(frame.ret.comparison_text, metric)
                 IN  /\ ListsExactlyOnce(GroupsOf(lines), labels)
                     /\ \A i \in 1..Len(lines) :
                          /\ absent(l.df_date1, lines[i], lines[i].amount1)
                          /\ absent(l.df_date2, lines[i], lines[i].amount2)
            /\ \A fig \in {frame.ret.amount_dumbbell, frame.ret.income_dumbbell} :
                 /\ ListsExactlyOnce(GroupsOf(RowsOf(fig)), labels)
                 /\ \A i \in 1..Len(RowsOf(fig)) :
                      /\ absent(l.df_date1, RowsOf(fig)[i], RowsOf(fig)[i].val1)
                      /\ absent(l.df_date2, RowsOf(fig)[i], RowsOf(fig)[i].val2)

----------------------------------------------------------------------------
(* C6: proportion closure *)

Props1(rows) == [i \in 1..Len(rows) |-> rows[i].prop1]

Props2(rows) == [i \in 1..Len(rows) |-> rows[i].prop2]

\* the narrative has its proportion section
HasLines == PartsOfKind(frame.ret.comparison_text, "line") /= <<>>

\* the proportions of a snapshot sum to 100 wherever they are computed:
\* in the dumbbell chart of the metric and, when the text has the section,
\* in the bullet lines of the metric
ClosedAt(fig, lines, first) ==
    /\ RatSum(IF first THEN Props1(RowsOf(fig)) ELSE Props2(RowsOf(fig))) = Hundred
    /\ HasLines => RatSum(IF first THEN Props1(lines) ELSE Props2(lines)) = Hundred

\* C6 as stated: for every non-empty snapshot and every active group
\* dimension the per-category proportions of the snapshot sum to 100,
\* whatever the metric values.
C6_ClosureAlways ==
    GroupingActive =>
        LET l == frame.loc
            t == frame.ret.comparison_text
        IN  /\ l.df_date1 /= <<>> =>
                  /\ ClosedAt(frame.ret.amount_dumbbell, LinesOf(t, "Amount_total"), TRUE)
                  /\ ClosedAt(frame.ret.income_dumbbell, LinesOf(t, "Income_total"), TRUE)
            /\ l.df_date2 /= <<>> =>
                  /\ ClosedAt(frame.ret.amount_dumbbell, LinesOf(t, "Amount_total"), FALSE)
                  /\ ClosedAt(frame.ret.income_dumbbell, LinesOf(t, "Income_total"), FALSE)

\* the values of a snapshot's categories add up to the snapshot's total
SumsToTotal(fig, df, metric, first) ==
    LET rows == RowsOf(fig)
    IN  RatSum([i \in 1..Len(rows) |->
                  Rat(IF first THEN rows[i].val1 ELSE rows[i].val2)])
        = Rat(SumCol(df, metric))

\* C6 (amended): for every snapshot whose total of the metric is greater
\* than 0 and every active group dimension, the per-category proportions of
\* the snapshot sum to 100 and the per-category sums add up to the total.
C6_ClosureForPositiveTotal ==
    GroupingActive =>
        LET l == frame.loc
            t == frame.ret.comparison_text
            fig(metric) == IF metric = "Amount_total" THEN frame.ret.amount_dumbbell
                           ELSE frame.ret.income_dumbbell
        IN  \A metric \in MetricVars :
              /\ SumCol(l.df_date1, metric) > 0 =>
                    /\ ClosedAt(fig(metric), LinesOf(t, metric), TRUE)
                    /\ SumsToTotal(fig(metric), l.df_date1, metric, TRUE)
              /\ SumCol(l.df_date2, metric) > 0 =>
                    /\ ClosedAt(fig(metric), LinesOf(t, metric), FALSE)
                    /\ SumsToTotal(fig(metric), l.df_date2, metric, FALSE)

\* the new snapshot has two categories with non-zero shares of a positive
\* total, listed in the text and in the dumbbell chart
C6_Witness ==
    /\ GroupingActive
    /\ HasLines
    /\ SumCol(frame.loc.df_date2, "Amount_total") > 0
    /\ Len(RowsOf(frame.ret.amount_dumbbell)) = 2
    /\ \A i \in 1..2 : RowsOf(frame.ret.amount_dumbbell)[i].prop2 \notin {Zero, Hundred}
    /\ RatSum(Props2(LinesOf(frame.ret.comparison_text, "Amount_total"))) = Hundred

----------------------------------------------------------------------------
(* C7: the proportion of a category and its change *)

\* prop is part / total * 100, stated without dividing
IsPercentOf(prop, part, total) == prop[2] > 0 /\ prop[1] * total = part * 100 * prop[2]

\* the description the claim gives to a change of prop_change points
ClaimedDesc(prop_change) ==
    IF prop_change[1] > 0 THEN "increased"
    ELSE IF prop_change[1] < 0 THEN "decreased"
    ELSE "remained stable"

\* a bullet line reports prop_new - prop_old and describes its sign
DeltaReported(line) ==
    /\ line.prop_change = RatSub(line.prop2, line.prop1)
    /\ line.change_desc = ClaimedDesc(line.prop_change)
    /\ line.numbers_txt[3] = Fmt(RatAbs(line.prop_change), 1)

\* C7 as stated: the proportion of a category in a snapshot is
\* categorySum / snapshotTotal * 100, and 0 when the total is 0; the
\* reported change is prop_new - prop_old, 'increased' above 0, 'decreased'
\* below 0 and 'remained stable' at exactly 0.
C7_ProportionOfTotal ==
    GroupingActive =>
        LET l == frame.loc
            g == frame.args.group_var
            share(prop, df, label, metric) ==
                IF SumCol(df, metric) = 0 THEN prop = Zero
                ELSE IsPercentOf(prop, CategorySum(df, g, label, metric),
                                 SumCol(df, metric))
        IN  \A metric \in MetricVars :
              LET lines == LinesOf(frame.ret.comparison_text, metric)
              IN  \A i \in 1..Len(lines) :
                    /\ share(lines[i].prop1, l.df_date1, lines[i].group, metric)
                    /\ share(lines[i].prop2, l.df_date2, lines[i].group, metric)
                    /\ DeltaReported(lines[i])

\* the example of the claim: old {North: 70, South: 30}, new {North: 40, South: 60}
ScenarioB ==
    LET old   == << Row(MkDate(2023, 1), "North", "A", 70, 0),
                    Row(MkDate(2023, 1), "South", "A", 30, 0) >>
        new   == << Row(MkDate(2023, 5), "South", "A", 60, 0),
                    Row(MkDate(2023, 5), "North", "A", 40, 0) >>
    IN  generate_enhanced_comparison_text_updated(Rat(100), Rat(100), Zero, Zero,
            MkDate(2023, 1), MkDate(2023, 5), "none", <<>>, "Division", old, new)

\* C7 (amended): the proportion of a category in a snapshot is
\* categorySum / snapshotTotal * 100 when the total is greater than 0, and 0
\* when the total is 0 or negative; the reported change is
\* prop_new - prop_old, 'increased' above 0, 'decreased' below 0 and
\* 'remained stable' at exactly 0 (North 70 -> 40 decreased by 30, South
\* 30 -> 60 increased by 30).
C7_ProportionOfPositiveTotal ==
    /\ GroupingActive =>
        LET l == frame.loc
            g == frame.args.group_var
            share(prop, df, label, metric) ==
                IF SumCol(df, metric) <= 0 THEN prop = Zero
                ELSE IsPercentOf(prop, CategorySum(df, g, label, metric),
                                 SumCol(df, metric))
        IN  \A metric \in MetricVars :
              LET lines == LinesOf(frame.ret.comparison_text, metric)
              IN  \A i \in 1..Len(lines) :
                    /\ share(lines[i].prop1, l.df_date1, lines[i].group, metric)
                    /\ share(lines[i].prop2, l.df_date2, lines[i].group, metric)
                    /\ DeltaReported(lines[i])
    /\ Compared =>
        LET lines == LinesOf(ScenarioB, "Amount_total")
        IN  /\ GroupsOf(lines) = <<"North", "South">>
            /\ lines[1].prop1 = Rat(70) /\ lines[1].prop2 = Rat(40)
            /\ lines[1].change_desc = "decreased" /\ lines[1].numbers_txt[3] = 300
            /\ lines[2].prop1 = Rat(30) /\ lines[2].prop2 = Rat(60)
            /\ lines[2].change_desc = "increased" /\ lines[2].numbers_txt[3] = 300

\* one category loses share and the other gains it, and a snapshot with a
\* negative total is listed with proportion 0
C7_Witness ==
    /\ GroupingActive
    /\ LET lines == LinesOf(frame.ret.comparison_text, "Amount_total")
       IN  /\ \E i \in 1..Len(lines) : lines[i].change_desc = "increased"
           /\ \E i \in 1..Len(lines) : lines[i].change_desc = "decreased"
    /\ LET lines == LinesOf(frame.ret.comparison_text, "Income_total")
       IN  \E i \in 1..Len(lines) : lines[i].change_desc = "remained stable"

\* a snapshot whose total is negative: its categories are listed at 0
C7_NegativeTotalListed ==
    /\ GroupingActive
    /\ SumCol(frame.loc.df_date1, "Amount_total") < 0
    /\ LET lines == LinesOf(frame.ret.comparison_text, "Amount_total")
       IN  \E i \in 1..Len(lines) :
              /\ lines[i].prop1 = Zero
              /\ CategorySum(frame.loc.df_date1, frame.args.group_var,
                             lines[i].group, "Amount_total") /= 0

----------------------------------------------------------------------------
(* C8: stacking and grouping *)

BothSet ==
    /\ frame.args.stack_var \in CategoricalVars
    /\ frame.args.group_var \in CategoricalVars

StackedBy(fig, stack_var) == fig.barmode = "stack" /\ fig.by = stack_var

\* C8: with a stack and a group dimension both set to categorical
\* dimensions, the history bar chart and the two comparison bar charts are
\* broken down by the stack dimension in barmode 'stack'.
C8_StackingWins ==
    /\ (IsBarchart /\ BothSet) => StackedBy(frame.ret, frame.args.stack_var)
    /\ (Compared /\ BothSet) =>
          /\ StackedBy(frame.ret.amount_chart, frame.args.stack_var)
          /\ StackedBy(frame.ret.income_chart, frame.args.stack_var)

----------------------------------------------------------------------------
(* C9: the order of categories and months *)

TraceNames(fig) == [i \in 1..Len(fig.data) |-> fig.data[i].name]

EveryTraceChronological(fig) ==
    \A i \in 1..Len(fig.data) : MonthsChronological(fig.data[i].x)

\* C9: category labels are emitted in ascending order and months in
\* chronological order in every output, whatever the order of the rows.
C9_SortedEverywhere ==
    /\ IsBarchart =>
          /\ EveryTraceChronological(frame.ret)
          /\ frame.ret.by /= "none" => LabelsAscending(TraceNames(frame.ret))
    /\ IsAmountIncome =>
          /\ EveryTraceChronological(frame.ret)
          /\ frame.ret.by /= "none" =>
                LabelsAscending([i \in 1..(Len(frame.ret.data) \div 2) |->
                                    frame.ret.data[2 * i].name[2]])
    /\ Compared =>
          /\ \A fig \in {frame.ret.amount_chart, frame.ret.income_chart} :
                /\ EveryTraceChronological(fig)
                /\ fig.by /= "none" => LabelsAscending(TraceNames(fig))
          /\ \A fig \in {frame.ret.amount_dumbbell, frame.ret.income_dumbbell} :
                LabelsAscending(GroupsOf(RowsOf(fig)))
          /\ \A metric \in MetricVars :
                LabelsAscending(GroupsOf(LinesOf(frame.ret.comparison_text, metric)))

----------------------------------------------------------------------------
(* C10: the categorical filter *)

\* the columns of the loaded table of a row that carries a 'month' as well
Loaded(df) == [i \in 1..Len(df) |-> [c \in Columns |-> df[i][c]]]

\* df is base with exactly the rows kept whose filter_var is in the list,
\* or all of base when the list is empty or there is no filter
FilterRule(df, base, filter_var, filter_values) ==
    IF filter_var \in CategoricalVars /\ filter_values /= <<>>
    THEN /\ \A i \in 1..Len(df) : df[i][filter_var] \in Range(filter_values)
         /\ \A i \in 1..Len(base) :
               base[i][filter_var] \in Range(filter_values) => base[i] \in Range(df)
         /\ Range(df) \subseteq Range(base)
         /\ Len(df) = Cardinality(Range(df))
    ELSE (filter_values = <<>> \/ filter_var = "none") => df = base

\* C10: the categorical filter keeps exactly the rows whose value for the
\* filter dimension is in the include-set when the dimension is a
\* categorical column and the set is not empty; with an empty set all rows
\* of the time window (history charts) or of the month (comparison
\* snapshots) are retained.
C10_FilterRule ==
    /\ (IsBarchart \/ IsAmountIncome) =>
          FilterRule(Loaded(frame.df),
                     YearFilter(sample_data, frame.args.year_range),
                     frame.args.filter_var, frame.args.filter_values)
    /\ (IsComparison /\ frame.branch = "compare") =>
          /\ FilterRule(frame.loc.df_date1, Snapshot(sample_data, frame.loc.date1),
                        frame.args.filter_var, frame.args.filter_values)
          /\ FilterRule(frame.loc.df_date2, Snapshot(sample_data, frame.loc.date2),
                        frame.args.filter_var, frame.args.filter_values)

\* a filter on Division that keeps some rows of the window and drops others
C10_Witness ==
    /\ IsBarchart
    /\ frame.args.filter_var = "Division"
    /\ frame.args.filter_values = <<"North">>
    /\ frame.df /= <<>>
    /\ Len(frame.df) < Len(YearFilter(sample_data, frame.args.year_range))

----------------------------------------------------------------------------
(* C11: a dimension name that is no column of the table *)

\* the name a dimension argument stands for when unknown names count as 'none'
AsNone(v) == IF v \in Columns THEN v ELSE "none"

\* the history callback returned what it returns with every unknown
\* dimension name replaced by 'none'
HistoryAsForNone ==
    LET a  == frame.args
        df == BarchartFrame(sample_data, AsNone(a.filter_var), a.filter_values,
                            a.year_range)
    IN  /\ IsBarchart =>
              frame.ret = BarchartFigure(df, a.selected_var, AsNone(a.stack_var),
                                         AsNone(a.group_var))
        /\ IsAmountIncome =>
              frame.ret = AmountIncomeFigure(df, AsNone(a.group_var))

\* the comparison callback completed, with the outputs it returns when every
\* unknown dimension name is replaced by 'none'
ComparisonAsForNone ==
    (IsComparison /\ frame.branch = "compare") =>
        LET a == frame.args
            l == ComparisonLocals(sample_data, a.selected_dates,
                                  AsNone(a.filter_var), a.filter_values)
        IN  /\ frame.ret.kind = "outputs"
            /\ frame.ret = ComparisonOutputs(l, AsNone(a.filter_var), a.filter_values,
                                             AsNone(a.stack_var), AsNone(a.group_var))

\* C11: a filter, stack or group dimension name that is no column of the
\* table is treated as 'none' by update_barchart, update_amount_income_chart
\* and update_enhanced_comparison_content (charts, dumbbells and narrative
\* included): the callback completes with the result it gives for 'none'.
C11_UnknownDimensionIsNone == HistoryAsForNone /\ ComparisonAsForNone

----------------------------------------------------------------------------
(* C12: fewer or more than two selected periods *)

\* C12: when the number of selected periods is not two, the comparison
\* callback returns the 'insufficient selection' placeholder for all six
\* outputs (the prompt in the value-box area, one and the same empty figure
\* for the four charts, the default text), computes no comparison and does
\* not raise; with exactly two periods it goes on to the comparison.
C12_InsufficientSelection ==
    IsComparison =>
        IF Len(frame.args.selected_dates) /= 2
        THEN /\ frame.branch = "insufficient"
             /\ "loc" \notin DOMAIN frame
             /\ frame.ret = InsufficientSelection
             /\ frame.ret.kind = "outputs"
             /\ frame.ret.value_boxes.kind = "prompt"
             /\ frame.ret.amount_chart.kind = "empty"
             /\ frame.ret.income_chart = frame.ret.amount_chart
             /\ frame.ret.amount_dumbbell = frame.ret.amount_chart
             /\ frame.ret.income_dumbbell = frame.ret.amount_chart
             /\ frame.ret.comparison_text[1].kind = "default"
        ELSE frame.branch = "compare"

\* three periods are selected and the placeholder is returned
C12_Witness ==
    /\ IsComparison
    /\ Len(frame.args.selected_dates) = 3
    /\ frame.ret = InsufficientSelection

----------------------------------------------------------------------------
(* C13: a period and filter that no record matches *)

\* a row of the table is of the month and passes the categorical filter
Matches(r, date, filter_var, filter_values) ==
    /\ r.date = date
    /\ (filter_var \in CategoricalVars /\ filter_values /= <<>>)
          => r[filter_var] \in Range(filter_values)

\* no record of the table matches the period and the filter of the request
NoMatch(date) ==
    \A i \in 1..Len(sample_data) :
        ~Matches(sample_data[i], date, frame.args.filter_var,
                 frame.args.filter_values)

\* C13: when no record matches a period and the filter, the snapshot is empty
\* and its amount and income sums are 0, and the callback completes (for a
\* group dimension that is 'none' or a column); when both snapshots are
\* empty the two percentage changes, the two ratios and the ratio delta are
\* 0, each change sentence says 'remained essentially equal' and the ratio
\* sentence is the 'stable' one.
C13_EmptySnapshot ==
    (IsComparison /\ frame.branch = "compare") =>
        LET l == frame.loc
        IN  /\ NoMatch(l.date1) =>
                 /\ l.df_date1 = <<>>
                 /\ l.amount_old = Zero /\ l.income_old = Zero
            /\ NoMatch(l.date2) =>
                 /\ l.df_date2 = <<>>
                 /\ l.amount_new = Zero /\ l.income_new = Zero
            /\ ((NoMatch(l.date1) \/ NoMatch(l.date2))
                    /\ frame.args.group_var \in Columns \cup {"none"})
                 => frame.ret.kind = "outputs"
            /\ (NoMatch(l.date1) /\ NoMatch(l.date2)) =>
                 /\ frame.ret.kind = "outputs"
                 /\ l.amount_change = Zero /\ l.income_change = Zero
                 /\ l.ratio_old = Zero /\ l.ratio_new = Zero
                 /\ l.ratio_difference = Zero
                 /\ \A i \in 1..3 : frame.ret.value_boxes.boxes[i].change = Zero
                 /\ LET text == frame.ret.comparison_text
                    IN  /\ Len(PartsOfKind(text, "change")) = 2
                        /\ \A i \in 1..2 :
                              /\ PartsOfKind(text, "change")[i].change_type
                                    = "remained essentially equal"
                              /\ PartsOfKind(text, "change")[i].old_txt = 0
                              /\ PartsOfKind(text, "change")[i].new_txt = 0
                        /\ Len(PartsOfKind(text, "ratio")) = 1
                        /\ PartsOfKind(text, "ratio")[1].class = "stable"

\* both snapshots are empty, the first because the filter excludes the only
\* record of its month
C13_Witness ==
    /\ Compared
    /\ NoMatch(frame.loc.date1) /\ NoMatch(frame.loc.date2)
    /\ Snapshot(sample_data, frame.loc.date1) /= <<>>
    /\ frame.args.group_var = "Division"

----------------------------------------------------------------------------
(* C14: no division by zero *)

\* a number that is the outcome of no division by zero
Finite(x) == x /= DivByZero

\* the numbers of a narrative are finite
TextFinite(text) ==
    \A i \in 1..Len(text) :
        /\ text[i].kind = "change" => Finite(text[i].relative_change)
        /\ text[i].kind = "ratio" =>
              /\ Finite(text[i].ratio_old) /\ Finite(text[i].ratio_new)
              /\ Finite(text[i].ratio_change)
        /\ text[i].kind = "line" =>
              /\ Finite(text[i].prop1) /\ Finite(text[i].prop2)
              /\ Finite(text[i].prop_change)

\* the marker sizes of a dumbbell chart are computed with a non-zero
\* max_val, and its numbers are finite
DumbbellFinite(fig) ==
    \A i \in 1..Len(RowsOf(fig)) :
        LET row == RowsOf(fig)[i]
        IN  /\ row.max_val /= 0
            /\ Finite(row.prop1) /\ Finite(row.prop2)
            /\ Finite(row.size1) /\ Finite(row.size2)

\* C14: no computation of the comparison callback divides by zero: for
\* every table, selection, filter and grouping (empty snapshots, zero sums
\* and categories of value zero included) every percentage, ratio,
\* proportion and marker size is finite, the marker-size denominator is not
\* zero, and nothing is raised by the arithmetic.
C14_NoDivisionByZero ==
    (IsComparison /\ frame.branch = "compare") =>
        LET l == frame.loc
        IN  /\ Finite(l.amount_change) /\ Finite(l.income_change)
            /\ Finite(l.ratio_old) /\ Finite(l.ratio_new)
            /\ Finite(l.ratio_difference)
            /\ frame.ret.kind = "raise" => frame.ret.error = "KeyError"
            /\ frame.ret.kind = "outputs" =>
                  /\ \A i \in 1..3 : Finite(frame.ret.value_boxes.boxes[i].change)
                  /\ TextFinite(frame.ret.comparison_text)
                  /\ DumbbellFinite(frame.ret.amount_dumbbell)
                  /\ DumbbellFinite(frame.ret.income_dumbbell)

\* a category whose value is 0 at both dates is drawn, the new snapshot is
\* empty (income 0) and the old one has an income of 0 in one category
C14_Witness ==
    /\ Compared
    /\ frame.loc.income_new = Zero
    /\ \E i \in 1..Len(RowsOf(frame.ret.amount_dumbbell)) :
          LET row == RowsOf(frame.ret.amount_dumbbell)[i]
          IN  row.val1 = 0 /\ row.val2 = 0 /\ row.max_val = 1
                /\ row.size1 = Rat(10)

----------------------------------------------------------------------------
(* C15: the classification of the ratio sentence *)

\* the ratio delta of the four sums given to the text generator
RatioDelta(a) ==
    RatSub(IF a.income_new = Zero THEN Zero ELSE RatDiv(a.amount_new, a.income_new),
           IF a.income_old = Zero THEN Zero ELSE RatDiv(a.amount_old, a.income_old))

\* the class the claim gives to a ratio delta
ClaimedRatioClass(delta) ==
    IF RatLt(RatAbs(delta), OnePercent) THEN "stable"
    ELSE IF ~RatLt(delta, OnePercent) THEN "improved"
    ELSE "declined"

\* C15: the ratio sentence is 'stable' exactly when |ratioNew - ratioOld| is
\* below 0.01, 'improved' when the delta is 0.01 or more and 'declined' when
\* it is -0.01 or less; the class is a function of the delta alone, whatever
\* the classes of the amount and income changes (amount 100 -> 150 and
\* income 50 -> 75, both 'increased', give 'stable').
C15_RatioClassification ==
    IsText =>
        LET a     == frame.args
            delta == RatioDelta(a)
            ratio == PartsOfKind(frame.ret, "ratio")
            chg   == PartsOfKind(frame.ret, "change")
        IN  /\ Len(ratio) = 1
            /\ ratio[1].ratio_change = delta
            /\ ratio[1].class = ClaimedRatioClass(delta)
            /\ (ratio[1].class = "stable") <=> RatLt(RatAbs(delta), OnePercent)
            /\ (ratio[1].class = "declined") <=> ~RatLt(RatSub(Zero, OnePercent), delta)
            /\ (a.amount_old = Rat(100) /\ a.amount_new = Rat(150)
                  /\ a.income_old = Rat(50) /\ a.income_new = Rat(75)) =>
                  /\ chg[1].change_type = "increased"
                  /\ chg[2].change_type = "increased"
                  /\ ratio[1].class = "stable"

\* amount and income both increased by 50% and the ratio stayed at 2.00
C15_Witness ==
    /\ IsText
    /\ frame.args.amount_old = Rat(100) /\ frame.args.amount_new = Rat(150)
    /\ frame.args.income_old = Rat(50) /\ frame.args.income_new = Rat(75)
    /\ PartsOfKind(frame.ret, "change")[1].clause[1].pct_txt = 500
    /\ PartsOfKind(frame.ret, "ratio")[1].class = "stable"
    /\ PartsOfKind(frame.ret, "ratio")[1].numbers_txt = <<200>>

----------------------------------------------------------------------------
(* C16: the order of the sections of the narrative *)

Header(title) == [kind |-> "header", title |-> title]

\* the parts of a text from the m-th to the n-th
Parts(text, m, n) == SubSeq(text, m, n)

\* the text is: an optional filter preamble, the header and the amount and
\* income change sentences, the ratio sentence, an optional proportion
\* breakdown (amount lines, then income lines), the summary footer
InFixedOrder(text) ==
    LET n   == Len(text)
        pre == IF n > 0 /\ text[1].kind = "filter" THEN 1 ELSE 0
        mid == Parts(text, pre + 5, n - 2)
    IN  /\ n >= pre + 6
        /\ text[pre + 1] = Header("COMPARISON ANALYSIS:")
        /\ text[pre + 2].kind = "change" /\ text[pre + 2].variable = "Amount Total"
        /\ text[pre + 3].kind = "change" /\ text[pre + 3].variable = "Income Total"
        /\ text[pre + 4].kind = "ratio"
        /\ \/ mid = <<>>
           \/ mid = << Header("PROPORTION ANALYSIS BY GROUPS:"),
                       Header("Amount Total Proportion Changes:") >>
                    \o LinesOf(text, "Amount_total")
                    \o << Header("Income Total Proportion Changes:") >>
                    \o LinesOf(text, "Income_total")
        /\ text[n - 1] = Header("SUMMARY:")
        /\ text[n].kind = "summary"
        /\ text[n].prompts = << "[Add your key insights here]",
                                "[Note any significant patterns]",
                                "[Record actionable findings]" >>

\* C16: the narrative always has its sections in the fixed order: optional
\* filter preamble, amount change sentence, income change sentence, ratio
\* sentence, optional per-category proportion breakdown, summary footer; the
\* footer with its three bracketed prompts is there for every input.
C16_SectionsInFixedOrder ==
    Compared => InFixedOrder(frame.ret.comparison_text)

\* a narrative with all six sections: preamble and breakdown included
C16_Witness ==
    /\ Compared
    /\ frame.ret.comparison_text[1].kind = "filter"
    /\ Len(LinesOf(frame.ret.comparison_text, "Amount_total")) = 2
    /\ Len(LinesOf(frame.ret.comparison_text, "Income_total")) = 2
    /\ Len(frame.ret.comparison_text) = 14

----------------------------------------------------------------------------
(* C17: the relative-change clause of a change sentence *)

\* the absolute percentage change of a pair of sums, 100 from an old sum of 0
AbsPctChange(old_val, new_val) ==
    IF old_val = Zero THEN Hundred
    ELSE RatAbs(RatMul(RatDiv(RatSub(new_val, old_val), old_val), Hundred))

\* a change sentence has no clause and the connective 'at' when its verb is
\* 'remained essentially equal'; otherwise the connective 'to' and a clause
\* whose direction word is that of the verb, with the absolute percentage
ClauseMatchesVerb(part, old_val, new_val) ==
    /\ (part.clause = <<>>) <=> (part.change_type = "remained essentially equal")
    /\ (part.connective = "at") <=> (part.change_type = "remained essentially equal")
    /\ part.connective \in {"at", "to"}
    /\ part.change_type = "increased" =>
          /\ Len(part.clause) = 1
          /\ part.clause[1].direction = "increase"
          /\ part.clause[1].pct_txt = Fmt(AbsPctChange(old_val, new_val), 1)
    /\ part.change_type = "decreased" =>
          /\ Len(part.clause) = 1
          /\ part.clause[1].direction = "decrease"
          /\ part.clause[1].pct_txt = Fmt(AbsPctChange(old_val, new_val), 1)

\* C17: in a change sentence the relative-change clause is omitted exactly
\* when the verb is 'remained essentially equal', and then the connective is
\* 'at'; for 'increased' / 'decreased' the connective is 'to' and the clause
\* says 'increase' / 'decrease' with the absolute value of the percentage
\* change.
C17_ClauseMatchesVerb ==
    IsText =>
        LET chg == PartsOfKind(frame.ret, "change")
        IN  /\ Len(chg) = 2
            /\ ClauseMatchesVerb(chg[1], frame.args.amount_old, frame.args.amount_new)
            /\ ClauseMatchesVerb(chg[2], frame.args.income_old, frame.args.income_new)

\* amount -100 -> -102 'decreased ... to', a relative decrease of 2.0%, and
\* income 50 -> 50 'remained essentially equal at' with no clause
C17_Witness ==
    /\ IsText
    /\ frame.args.amount_old = Rat(-100) /\ frame.args.amount_new = Rat(-102)
    /\ frame.args.income_old = Rat(50) /\ frame.args.income_new = Rat(50)
    /\ PartsOfKind(frame.ret, "change")[1].change_type = "decreased"
    /\ PartsOfKind(frame.ret, "change")[1].clause
          = << [direction |-> "decrease", pct_txt |-> 20] >>
    /\ PartsOfKind(frame.ret, "change")[2].connective = "at"
    /\ PartsOfKind(frame.ret, "change")[2].clause = <<>>

----------------------------------------------------------------------------
(* C18: no breakdown without a group dimension *)

SelectGroupingPlaceholder ==
    [kind |-> "placeholder",
     text |-> "Select a grouping variable to see proportion analysis"]

\* the narrative has no proportion section: no bullet line and only the
\* two headers of the comparison and the summary
NoProportionSection(text) ==
    /\ PartsOfKind(text, "line") = <<>>
    /\ PartsOfKind(text, "header")
          = << Header("COMPARISON ANALYSIS:"), Header("SUMMARY:") >>

\* a breakdown (bullet lines, or dumbbell rows) is by the categories of col
BreakdownBy(ret, col, df1, df2) ==
    /\ \A i \in 1..Len(PartsOfKind(ret.comparison_text, "line")) :
          PartsOfKind(ret.comparison_text, "line")[i].group \in LabelsOf(df1, df2, col)
    /\ \A fig \in {ret.amount_dumbbell, ret.income_dumbbell} :
          /\ fig.kind = "dumbbell" => fig.by = col
          /\ \A i \in 1..Len(RowsOf(fig)) :
                RowsOf(fig)[i].group \in LabelsOf(df1, df2, col)

\* C18: the per-category breakdown is produced only for a group dimension
\* that is a categorical dimension, and is by that dimension; when the group
\* selection is 'none' no other dimension is substituted: the narrative has
\* no proportion section and each dumbbell chart is the 'select a grouping
\* variable' placeholder.
C18_NoBreakdownWithoutGroup ==
    Compared =>
        LET g   == frame.args.group_var
            ret == frame.ret
        IN  /\ g = "none" =>
                  /\ NoProportionSection(ret.comparison_text)
                  /\ ret.amount_dumbbell = SelectGroupingPlaceholder
                  /\ ret.income_dumbbell = SelectGroupingPlaceholder
            /\ g \notin CategoricalVars =>
                  /\ NoProportionSection(ret.comparison_text)
                  /\ ret.amount_dumbbell.kind /= "dumbbell"
                  /\ ret.income_dumbbell.kind /= "dumbbell"
            /\ g \in CategoricalVars =>
                  BreakdownBy(ret, g, frame.loc.df_date1, frame.loc.df_date2)

\* no group is selected while both snapshots have rows of two divisions
C18_Witness ==
    /\ Compared
    /\ frame.args.group_var = "none"
    /\ frame.args.stack_var = "Division"
    /\ frame.loc.df_date1 /= <<>> /\ frame.loc.df_date2 /= <<>>
    /\ Cardinality(LabelsOf(frame.loc.df_date1, frame.loc.df_date2, "Division")) = 2
    /\ frame.ret.amount_dumbbell = SelectGroupingPlaceholder

----------------------------------------------------------------------------
(* C19: the time window of the history charts *)

\* the year of a record lies in the window, both bounds included
InWindow(r, year_range) ==
    year_range[1] <= Year(r.date) /\ Year(r.date) <= year_range[2]

\* a record passes the categorical filter of the request
PassesFilter(r, filter_var, filter_values) ==
    (filter_var \in CategoricalVars /\ filter_values /= <<>>)
        => r[filter_var] \in Range(filter_values)

\* C19: the history charts are drawn from exactly the records whose year y
\* satisfies startYear <= y <= endYear (and which pass the categorical
\* filter), in the order of the table: the records of the start year and of
\* the end year are kept, and with startYear = endYear those of that year.
C19_WindowInclusive ==
    (IsBarchart \/ IsAmountIncome) =>
        LET a    == frame.args
            kept == SelectSeq(sample_data,
                       LAMBDA r : InWindow(r, a.year_range)
                                  /\ PassesFilter(r, a.filter_var, a.filter_values))
        IN  /\ Loaded(frame.df) = kept
            /\ a.year_range[1] = a.year_range[2] =>
                  \A i \in 1..Len(sample_data) :
                      (sample_data[i] \in Range(Loaded(frame.df)))
                          <=> /\ Year(sample_data[i].date) = a.year_range[1]
                              /\ PassesFilter(sample_data[i], a.filter_var,
                                              a.filter_values)

\* the window 2023..2024 on a table with records of both years: a record of
\* the start year and one of the end year are in the frame
C19_Witness ==
    /\ IsAmountIncome
    /\ frame.args.year_range = <<2023, 2024>>
    /\ frame.args.filter_var = "none"
    /\ \E i \in 1..Len(frame.df) : Year(frame.df[i].date) = 2023
    /\ \E i \in 1..Len(frame.df) : Year(frame.df[i].date) = 2024
    /\ Len(frame.df) = Len(sample_data)

----------------------------------------------------------------------------
(* C20: the loaded table is read-only *)

----------------------------------------------------------------------------
(* C21: a result is a function of the parameters and the table *)

\* the result of a callback computed afresh from its arguments and a table
ResultOf(fn, args, data) ==
    IF fn = "update_barchart"
    THEN BarchartFigure(BarchartFrame(data, args.filter_var, args.filter_values,
                                      args.year_range),
                        args.selected_var, args.stack_var, args.group_var)
    ELSE IF fn = "update_amount_income_chart"
    THEN AmountIncomeFigure(BarchartFrame(data, args.filter_var, args.filter_values,
                                          args.year_range),
                            args.group_var)
    ELSE IF fn = "update_enhanced_comparison_content"
    THEN IF InsufficientDates(args.selected_dates) THEN InsufficientSelection
         ELSE ComparisonOutputs(ComparisonLocals(data, args.selected_dates,
                                    args.filter_var, args.filter_values),
                                args.filter_var, args.filter_values,
                                args.stack_var, args.group_var)
    ELSE IF fn \in {"update_filter_values", "update_comparison_filter_values"}
    THEN FilterValuesOutputs(data, args.filter_var)
    ELSE ComparisonDateOptions(data, args.active_tab)

----------------------------------------------------------------------------
(* C22: the value box and the sentence of one metric *)

\* the i-th value box and the i-th change sentence (1 amount, 2 income) tell
\* the same direction
SameDirection(ret, i) ==
    LET sentence == PartsOfKind(ret.comparison_text, "change")[i]
        box      == ret.value_boxes.boxes[i]
    IN  /\ sentence.change_type = "increased" => RatLt(Zero, box.change)
        /\ sentence.change_type = "decreased" => RatLt(box.change, Zero)

\* C22: for the same pair of snapshots the value box and the narrative agree
\* on the direction of each metric's change: 'increased' goes with a
\* value-box percentage above 0 and 'decreased' with one below 0, for all
\* old and new sums, an old sum of 0 or below 0 included.
C22_DirectionsAgree ==
    Compared => SameDirection(frame.ret, 1) /\ SameDirection(frame.ret, 2)

\* the disagreement on a negative old sum: the sentence says 'increased', the
\* box shows a percentage below 0
C22_NegativeOldSum ==
    /\ Compared
    /\ RatLt(frame.loc.amount_old, Zero)
    /\ PartsOfKind(frame.ret.comparison_text, "change")[1].change_type = "increased"
    /\ RatLt(frame.ret.value_boxes.boxes[1].change, Zero)
    /\ frame.ret.value_boxes.boxes[1].color = "red"

----------------------------------------------------------------------------
(* C23: the filter preamble of the narrative *)

\* the callback applied the categorical filter to the two snapshots
FilterApplied(args) ==
    /\ args.filter_var /= "none"
    /\ args.filter_var \in Columns
    /\ args.filter_values /= <<>>

HasPreamble(text) == PartsOfKind(text, "filter") /= <<>>

\* C23: the narrative has its 'Analysis filtered by ...' preamble if and
\* only if the callback applied the categorical filter to the two snapshots;
\* for a filter dimension that is no column of the table, where the
\* snapshots are left unfiltered, there is no preamble.
C23_PreambleIffFiltered ==
    Compared =>
        /\ HasPreamble(frame.ret.comparison_text) <=> FilterApplied(frame.args)
        /\ frame.args.filter_var \notin Columns =>
              /\ frame.loc.df_date1 = Snapshot(sample_data, frame.loc.date1)
              /\ frame.loc.df_date2 = Snapshot(sample_data, frame.loc.date2)
              /\ ~HasPreamble(frame.ret.comparison_text)

----------------------------------------------------------------------------
(* C24: the narrative breakdown and the dumbbell chart *)

\* the categories of a breakdown with their old and new proportions
Shares(entries) ==
    { <<entries[i].group, entries[i].prop1, entries[i].prop2>> :
        i \in 1..Len(entries) }

\* C24: for the same two snapshots, metric and categorical group dimension,
\* the proportion section of the narrative and the dumbbell chart list the
\* same categories with the same old and new proportions; when exactly one
\* snapshot is empty both show the breakdown of the other or both show none.
C24_NarrativeMatchesDumbbell ==
    GroupingActive =>
        /\ Shares(LinesOf(frame.ret.comparison_text, "Amount_total"))
              = Shares(RowsOf(frame.ret.amount_dumbbell))
        /\ Shares(LinesOf(frame.ret.comparison_text, "Income_total"))
              = Shares(RowsOf(frame.ret.income_dumbbell))

\* with both snapshots non-empty the two breakdowns agree
C24_AgreeWhenBothNonEmpty ==
    (GroupingActive /\ frame.loc.df_date1 /= <<>> /\ frame.loc.df_date2 /= <<>>) =>
        /\ Shares(LinesOf(frame.ret.comparison_text, "Amount_total"))
              = Shares(RowsOf(frame.ret.amount_dumbbell))
        /\ Shares(LinesOf(frame.ret.comparison_text, "Income_total"))
              = Shares(RowsOf(frame.ret.income_dumbbell))

----------------------------------------------------------------------------
(* C25: a breakdown conserves the totals *)

RECURSIVE SumSeq(_)
SumSeq(seq) == IF seq = <<>> THEN 0 ELSE Head(seq) + SumSeq(Tail(seq))

\* the value a trace shows at x, 0 when it has no bar there
ValueAt(trace, x) ==
    IF \E i \in 1..Len(trace.x) : trace.x[i] = x
    THEN trace.y[CHOOSE i \in 1..Len(trace.x) : trace.x[i] = x]
    ELSE 0

\* the sum over the traces of a figure of the values shown at x
TotalAt(fig, x) == SumSeq([t \in 1..Len(fig.data) |-> ValueAt(fig.data[t], x)])

\* the x positions at which a figure has a bar
BarPositions(fig) == UNION { Range(fig.data[t].x) : t \in 1..Len(fig.data) }

\* a figure broken down by categories shows, position by position, bars
\* that sum to the single bar of the figure that is not broken down
ConservesTotals(fig, simple) ==
    /\ BarPositions(fig) \subseteq BarPositions(simple)
    /\ \A x \in BarPositions(simple) : TotalAt(fig, x) = TotalAt(simple, x)

\* the figure the comparison callback draws without stack and group
SimpleComparison(l, variable) ==
    create_comparison_chart_updated(l.df_date1, l.df_date2, variable,
                                    l.date1, l.date2, "none", "none")

\* C25: breaking down by a categorical dimension conserves totals: in every
\* month of the history bar chart the stacked (or grouped) values of the
\* selected metric sum to the value of the chart without breakdown for the
\* same window and filter, and in the comparison charts the per-category
\* values of each snapshot sum to the snapshot total of the simple chart.
C25_BreakdownConservesTotals ==
    /\ (IsBarchart /\ frame.ret.by \in CategoricalVars) =>
          ConservesTotals(frame.ret,
                          BarchartFigure(frame.df, frame.args.selected_var,
                                         "none", "none"))
    /\ (Compared /\ frame.ret.amount_chart.by \in CategoricalVars) =>
          /\ ConservesTotals(frame.ret.amount_chart,
                             SimpleComparison(frame.loc, "Amount_total"))
          /\ ConservesTotals(frame.ret.income_chart,
                             SimpleComparison(frame.loc, "Income_total"))

\* a grouped history chart with two categories in one month, 50 and 60,
\* where the chart without breakdown shows 110
C25_Witness ==
    /\ IsBarchart
    /\ frame.ret.barmode = "group" /\ frame.ret.by = "Division"
    /\ frame.args.selected_var = "Amount_total"
    /\ Len(frame.ret.data) = 2
    /\ ValueAt(frame.ret.data[1], MonthStr(MkDate(2024, 1))) = 50
    /\ ValueAt(frame.ret.data[2], MonthStr(MkDate(2024, 1))) = 60
    /\ TotalAt(frame.ret, MonthStr(MkDate(2024, 1))) = 110

----------------------------------------------------------------------------
(* The page.  ui holds the properties of the components in the browser; a  *)
(* user's change of an Input property starts the callbacks that read it,   *)
(* and a callback's outputs are written to the components it names.        *)

\* maxValues of comparison-date-selector
MaxValues == 2

\* the options of filter-selector and of comparison-filter-selector
FilterOptions == {"none"} \cup CategoricalVars

\* the callback whose Input is the filter selector of a view
FilterValuesCallback(view) ==
    IF view = "history" THEN "update_filter_values"
    ELSE "update_comparison_filter_values"

\* the request update_barchart or update_amount_income_chart is sent when a
\* property of the history view changes; the selectors this model does not
\* move are at the values the layout gives them
HistoryRequest(chart, data, u, year_range) ==
    LET filter_var    == u.filter_selector["history"]
        filter_values == u.filter_values["history"]
        df == BarchartFrame(data, filter_var, filter_values, year_range)
    IN  IF chart = "update_barchart"
        THEN [fn   |-> "update_barchart",
              args |-> [selected_var |-> "Amount_total",
                        filter_var |-> filter_var,
                        filter_values |-> filter_values,
                        stack_var |-> "none",
                        group_var |-> "none",
                        year_range |-> year_range],
              df   |-> df,
              ret  |-> BarchartFigure(df, "Amount_total", "none", "none")]
        ELSE [fn   |-> "update_amount_income_chart",
              args |-> [filter_var |-> filter_var,
                        filter_values |-> filter_values,
                        group_var |-> "none",
                        year_range |-> year_range],
              df   |-> df,
              ret  |-> AmountIncomeFigure(df, "none")]

\* the request update_enhanced_comparison_content is sent when a property of
\* the comparison view changes
ComparisonRequest(data, u) ==
    LET selected_dates == u.selected_dates
        filter_var     == u.filter_selector["comparison"]
        filter_values  == u.filter_values["comparison"]
        args == [selected_dates |-> selected_dates,
                 filter_var |-> filter_var,
                 filter_values |-> filter_values,
                 stack_var |-> "none",
                 group_var |-> "none"]
    IN  IF InsufficientDates(selected_dates)
        THEN [fn     |-> "update_enhanced_comparison_content",
              args   |-> args,
              branch |-> "insufficient",
              ret    |-> InsufficientSelection]
        ELSE LET l == ComparisonLocals(data, selected_dates, filter_var,
                                       filter_values)
             IN  [fn     |-> "update_enhanced_comparison_content",
                  args   |-> args,
                  branch |-> "compare",
                  loc    |-> l,
                  ret    |-> ComparisonOutputs(l, filter_var, filter_values,
                                               "none", "none")]

\* the user picks another filter dimension in one of the two views: the
\* filter-values callback of the view runs and its three outputs are written
\* to the filter-values selector
SelectFilterDimension ==
    /\ frame.fn = "idle"
    /\ \E view \in Views :
       \E filter_var \in FilterOptions \ {ui.filter_selector[view]} :
          LET out == FilterValuesOutputs(sample_data, filter_var)
          IN  /\ frame' = [fn      |-> FilterValuesCallback(view),
                           args    |-> [filter_var |-> filter_var],
                           ret     |-> out,
                           trigger |-> "filter-selector"]
              /\ ui' = [ui EXCEPT !.filter_selector[view] = filter_var,
                                  !.filter_values_data[view] = out.data,
                                  !.filter_values_disabled[view] = out.disabled,
                                  !.filter_values[view] = out.value]
    /\ sample_data' = sample_data

\* the chart callbacks of the history view, which wait for the outputs of
\* update_filter_values and then run with the selector's new properties
RedrawHistory ==
    /\ frame.fn = "update_filter_values"
    /\ "trigger" \in DOMAIN frame
    /\ \E req \in { HistoryRequest(chart, sample_data, ui, year_range) :
                      chart \in {"update_barchart", "update_amount_income_chart"},
                      year_range \in YearRanges(sample_data) } :
          /\ frame' = [fn |-> req.fn, args |-> req.args, df |-> req.df,
                       ret |-> req.ret, trigger |-> "filter-selector"]
          /\ sample_data' = GlobalAfterAssignment(sample_data, req.df)
    /\ ui' = ui

\* the comparison callback, which waits for the outputs of
\* update_comparison_filter_values in the same way
RedrawComparison ==
    /\ frame.fn = "update_comparison_filter_values"
    /\ "trigger" \in DOMAIN frame
    /\ \E req \in { ComparisonRequest(sample_data, ui) } :
          /\ frame' = IF req.branch = "insufficient"
                      THEN [fn |-> req.fn, args |-> req.args,
                            branch |-> req.branch, ret |-> req.ret,
                            trigger |-> "filter-selector"]
                      ELSE [fn |-> req.fn, args |-> req.args,
                            branch |-> req.branch, loc |-> req.loc,
                            ret |-> req.ret, trigger |-> "filter-selector"]
          /\ ui' = [ui EXCEPT !.comparison_shown = req.args.selected_dates]
    /\ sample_data' = sample_data

\* the user changes the selection of an enabled filter-values selector: the
\* callbacks of the view that read the selection run
EditFilterValues ==
    /\ frame.fn = "idle"
    /\ \E view \in Views :
          /\ ~ui.filter_values_disabled[view]
          /\ \E S \in SUBSET Range(ui.filter_values_data[view]) :
                /\ S /= Range(ui.filter_values[view])
                /\ \E u \in { [ui EXCEPT !.filter_values[view] = SortLabels(S)] } :
                   \E req \in IF view = "history"
                              THEN { HistoryRequest(chart, sample_data, u, year_range) :
                                       chart \in {"update_barchart",
                                                  "update_amount_income_chart"},
                                       year_range \in YearRanges(sample_data) }
                              ELSE { ComparisonRequest(sample_data, u) } :
                      /\ frame' = req
                      /\ ui' = IF view = "history" THEN u
                               ELSE [u EXCEPT !.comparison_shown =
                                                 req.args.selected_dates]
                      /\ sample_data' = IF view = "history"
                                        THEN GlobalAfterAssignment(sample_data, req.df)
                                        ELSE sample_data

\* the user opens another tab: populate_comparison_dates runs and its output
\* is written to the options of the date selector
SwitchTab ==
    /\ frame.fn = "idle"
    /\ \E active_tab \in Tabs \ {ui.main_tabs} :
          LET out == ComparisonDateOptions(sample_data, active_tab)
          IN  /\ frame' = [fn      |-> "populate_comparison_dates",
                           args    |-> [active_tab |-> active_tab],
                           ret     |-> out,
                           trigger |-> "main-tabs"]
              /\ ui' = [ui EXCEPT !.main_tabs = active_tab,
                                  !.date_options = out]
    /\ sample_data' = sample_data

\* the selections the date selector can hold: at most maxValues of its
\* options, in the order they were picked
OfferedSelections(options) ==
    { s \in DateSelections : Len(s) <= MaxValues /\ Range(s) \subseteq Range(options) }

\* the user changes the selected dates on the comparison tab: the comparison
\* callback runs and its outputs replace what the view shows
SelectDates ==
    /\ frame.fn = "idle"
    /\ ui.main_tabs = "comparison"
    /\ \E s \in OfferedSelections(ui.date_options) \ {ui.selected_dates} :
       \E req \in { ComparisonRequest(sample_data,
                                      [ui EXCEPT !.selected_dates = s]) } :
          /\ frame' = req
          /\ ui' = [ui EXCEPT !.selected_dates = s, !.comparison_shown = s]
    /\ sample_data' = sample_data

\* The two filter selectors and what depends on them
NextFilters ==
    \/ SelectFilterDimension
    \/ RedrawHistory
    \/ RedrawComparison
    \/ EditFilterValues
    \/ Return

SpecFilters == Init /\ [][NextFilters]_vars

----------------------------------------------------------------------------
(* C26 *)

\* the distinct values of a column of the table
ColumnValues(col) == { sample_data[i][col] : i \in 1..Len(sample_data) }

\* the frames a chart callback may be asked to filter: the rows of a window
\* of years (history view) and the rows of one month (comparison view)
FilteredFrames(view) ==
    IF view = "history"
    THEN { YearFilter(sample_data, yr) : yr \in YearRanges(sample_data) }
    ELSE { Snapshot(sample_data, sample_data[i].date) : i \in 1..Len(sample_data) }

\* the filter-values selector of a view agrees with the view's dimension
SelectorConsistent(view) ==
    LET filter_var == ui.filter_selector[view]
    IN  IF filter_var = "none"
        THEN /\ ui.filter_values_disabled[view]
             /\ ui.filter_values_data[view] = <<>>
             /\ ui.filter_values[view] = <<>>
        ELSE /\ ~ui.filter_values_disabled[view]
             /\ ui.filter_values_data[view] = SortLabels(ColumnValues(filter_var))
             /\ Range(ui.filter_values[view]) \subseteq ColumnValues(filter_var)

\* the filter-values callback of the view has just written its outputs
JustReset(view) ==
    frame.fn = FilterValuesCallback(view) /\ "trigger" \in DOMAIN frame

\* every value of the dimension is selected, once, and the filter keeps
\* every row of every frame it may be applied to
AllSelected(view) ==
    LET filter_var == ui.filter_selector[view]
        value      == ui.filter_values[view]
    IN  /\ filter_var /= "none" =>
              /\ Range(value) = ColumnValues(filter_var)
              /\ \A i, j \in 1..Len(value) : i /= j => value[i] /= value[j]
        /\ \A df \in FilteredFrames(view) :
              ApplyFilter(df, Columns, filter_var, value) = df

\* a chart callback run because the filter dimension changed
RedrawnAfterReset ==
    "trigger" \in DOMAIN frame /\ frame.trigger = "filter-selector"
        /\ frame.fn \in {"update_barchart", "update_amount_income_chart",
                         "update_enhanced_comparison_content"}

\* C26: after any change of the filter dimension, in the history view or in
\* the comparison view, the filter-values selector is reset consistently.
\* With 'none' it is disabled, has no options and an empty selection.  With
\* a categorical dimension it is enabled, its options are the sorted
\* distinct values of that column and its selection is all of those values,
\* so that the filter applied immediately after the change keeps every
\* record, and no value of a previously selected dimension stays selected.
C26_FilterValuesReset ==
    /\ \A view \in Views :
          /\ SelectorConsistent(view)
          /\ JustReset(view) => AllSelected(view)
    /\ RedrawnAfterReset =>
          IF frame.fn = "update_enhanced_comparison_content"
          THEN AllSelected("comparison")
          ELSE /\ AllSelected("history")
               /\ Loaded(frame.df) = YearFilter(sample_data, frame.args.year_range)

\* the history chart redrawn after Division was chosen, South being the first
\* value of the column: both values selected, both rows drawn, while the
\* comparison view holds a narrowed selection of another dimension
C26_Witness ==
    /\ RedrawnAfterReset
    /\ frame.fn = "update_barchart"
    /\ frame.args.filter_var = "Division"
    /\ frame.args.filter_values = <<"South", "North">>
    /\ Len(frame.df) >= 2
    /\ ui.filter_selector["comparison"] = "Type"
    /\ ui.filter_values["comparison"] = <<"B">>

----------------------------------------------------------------------------
(* update_navigation *)

NavLinks == {"nav-today", "nav-scenario"}

TodayPage ==
    [today_content |-> "block", scenario_content |-> "none",
     nav_today |-> TRUE, nav_scenario |-> FALSE]

ScenarioPage ==
    [today_content |-> "none", scenario_content |-> "block",
     nav_today |-> FALSE, nav_scenario |-> TRUE]

\* the Scenario branch leaving the Today link active
update_navigation_BothActive(triggered) ==
    IF triggered /= <<>> /\ triggered[1] = "nav-scenario"
    THEN [ScenarioPage EXCEPT !.nav_today = TRUE]
    ELSE TodayPage

\* update_navigation; triggered is ctx.triggered, each entry reduced to the
\* component id of its prop_id
update_navigation(triggered) ==
    IF triggered = <<>>
    THEN TodayPage
    ELSE LET triggered_id == triggered[1]
         IN  IF triggered_id = "nav-today" THEN TodayPage
             ELSE IF triggered_id = "nav-scenario" THEN ScenarioPage
             ELSE TodayPage

\* the user clicks a link of the navigation bar: the link's n_clicks changes,
\* update_navigation runs and its four outputs are written to the two pages
\* and the two links
ClickNavLink ==
    /\ frame.fn = "idle"
    /\ \E link \in NavLinks :
          LET out == update_navigation(<<link>>)
          IN  /\ frame' = [fn   |-> "update_navigation",
                           args |-> [triggered |-> <<link>>],
                           ret  |-> out]
              /\ ui' = [ui EXCEPT !.today_display = out.today_content,
                                  !.scenario_display = out.scenario_content,
                                  !.nav_today_active = out.nav_today,
                                  !.nav_scenario_active = out.nav_scenario]
    /\ sample_data' = sample_data

\* The navigation bar alone
NextNavigation ==
    \/ ClickNavLink
    \/ Return

SpecNavigation == Init /\ [][NextNavigation]_vars

----------------------------------------------------------------------------
(* C27 *)

\* what the page shows: "today" or "scenario" when exactly one page is
\* displayed and exactly the link of that page is active, "mixed" otherwise
Shown(u) ==
    IF /\ u.today_display = "block" /\ u.scenario_display = "none"
       /\ u.nav_today_active /\ ~u.nav_scenario_active
    THEN "today"
    ELSE IF /\ u.today_display = "none" /\ u.scenario_display = "block"
            /\ ~u.nav_today_active /\ u.nav_scenario_active
    THEN "scenario"
    ELSE "mixed"

\* the page a link stands for
PageOf(link) == IF link = "nav-scenario" THEN "scenario" ELSE "today"

\* what the page would show after update_navigation returned out
ShownAfter(out) ==
    Shown([today_display |-> out.today_content,
           scenario_display |-> out.scenario_content,
           nav_today_active |-> out.nav_today,
           nav_scenario_active |-> out.nav_scenario])

\* C27: after any sequence of clicks on 'Today' and 'Scenario' exactly one
\* of the two pages is displayed and exactly one link is active, the active
\* link being that of the displayed page; the displayed page is the one
\* clicked last, and it is Today before any click and whenever the trigger
\* cannot be identified.
C27_NavigationFollowsLastClick ==
    /\ Shown(ui) = "today"
    /\ [](/\ Shown(ui) \in {"today", "scenario"}
          /\ \A triggered \in {<<>>, <<"">>, <<"main-tabs">>} :
                ShownAfter(update_navigation(triggered)) = "today")
    /\ [][ IF frame'.fn = "update_navigation"
           THEN Shown(ui') = PageOf(frame'.args.triggered[1])
           ELSE Shown(ui') = Shown(ui) ]_vars

\* Scenario was clicked and the Scenario page is the one shown
C27_Witness ==
    /\ frame.fn = "update_navigation"
    /\ frame.args.triggered = <<"nav-scenario">>
    /\ Shown(ui) = "scenario"

----------------------------------------------------------------------------
(* C28 *)

\* The tabs and the date selector of the comparison view
NextDates ==
    \/ SwitchTab
    \/ SelectDates
    \/ Return

SpecDates == Init /\ [][NextDates]_vars

\* the months of the table, as the keys the selector offers
MonthsOfTable == { MonthStr(sample_data[i].date) : i \in 1..Len(sample_data) }

\* a list of month keys in chronological order, none twice
Chronological(options) ==
    \A i, j \in 1..Len(options) :
        i < j => ParseMonth(options[i]) < ParseMonth(options[j])

----------------------------------------------------------------------------
(* save_analysis, save_comparison *)

\* the label alternating with every click
save_analysis_Toggle(n_clicks) ==
    IF n_clicks % 2 = 1 THEN "Analysis Saved!" ELSE "Save Analysis"

\* save_analysis; a button never clicked has n_clicks None, here 0, which
\* the test 'if n_clicks' treats alike
save_analysis(n_clicks) ==
    IF n_clicks /= 0 THEN "Analysis Saved!" ELSE "Save Analysis"

\* save_comparison
save_comparison(n_clicks) ==
    IF n_clicks /= 0 THEN "Comparison Saved!" ELSE "Save Comparison"

\* the callback whose Input is the button's n_clicks
SaveCallback(button) ==
    IF button = "save-analysis-btn" THEN "save_analysis" ELSE "save_comparison"

\* the user clicks a save button: its n_clicks grows by one, its callback
\* runs and the returned label is written to the button
ClickSave ==
    /\ frame.fn = "idle"
    /\ \E button \in Buttons :
          /\ ui.n_clicks[button] < MaxClicks
          /\ LET n_clicks == ui.n_clicks[button] + 1
                 label    == IF button = "save-analysis-btn"
                             THEN save_analysis(n_clicks)
                             ELSE save_comparison(n_clicks)
             IN  /\ frame' = [fn   |-> SaveCallback(button),
                              args |-> [n_clicks |-> n_clicks,
                                        text_edited |-> ui.textbox_edited[button]],
                              ret  |-> label]
                 /\ ui' = [ui EXCEPT !.n_clicks[button] = n_clicks,
                                     !.save_label[button] = label]
    /\ sample_data' = sample_data

\* the user changes the text of the notes box next to a button; the text is
\* a State of the save callback, so no callback runs
EditTextbox ==
    /\ frame.fn = "idle"
    /\ \E button \in Buttons :
          ui' = [ui EXCEPT !.textbox_edited[button] = ~ui.textbox_edited[button]]
    /\ frame' = frame
    /\ sample_data' = sample_data

\* The two save buttons and their text boxes
NextSave ==
    \/ ClickSave
    \/ EditTextbox
    \/ Return

SpecSave == Init /\ [][NextSave]_vars

----------------------------------------------------------------------------
(* C29 *)

\* the label of a button once saved
SavedLabel(button) ==
    IF button = "save-analysis-btn" THEN "Analysis Saved!" ELSE "Comparison Saved!"

\* C29: each save button shows 'Save Analysis' / 'Save Comparison' until its
\* first click and 'Analysis Saved!' / 'Comparison Saved!' from then on: once
\* saved, the label never returns to the unsaved one, whatever clicks and
\* edits of the text box follow, and a click on one button never changes
\* the label of the other.
C29_SavedLabelIsFinal ==
    /\ [](\A b \in Buttons :
             ui.save_label[b] = IF ui.n_clicks[b] = 0 THEN UnsavedLabel(b)
                                ELSE SavedLabel(b))
    /\ [][ \A b \in Buttons :
             /\ ui.save_label[b] = SavedLabel(b) => ui'.save_label[b] = SavedLabel(b)
             /\ ui'.save_label[b] /= ui.save_label[b] =>
                   /\ frame'.fn = SaveCallback(b)
                   /\ \A o \in Buttons \ {b} : ui'.save_label[o] = ui.save_label[o]
         ]_vars

\* the analysis button clicked a second time after its text was edited, the
\* comparison button never clicked
C29_Witness ==
    /\ frame.fn = "save_analysis"
    /\ frame.args.n_clicks = 2
    /\ frame.args.text_edited
    /\ ui.save_label["save-analysis-btn"] = "Analysis Saved!"
    /\ ui.n_clicks["save-comparison-btn"] = 0
    /\ ui.save_label["save-comparison-btn"] = "Save Comparison"

----------------------------------------------------------------------------
(* C30 *)

\* 10 <= size <= 30
InMarkerRange(size) == ~RatLt(size, Rat(10)) /\ ~RatLt(Rat(30), size)

\* the sizes of one row of a dumbbell chart are as claimed
MarkerSizesAsClaimed(row) ==
    LET larger == IF row.val1 > row.val2 THEN row.val1 ELSE row.val2
    IN  /\ InMarkerRange(row.size1)
        /\ InMarkerRange(row.size2)
        /\ larger > 0 =>
              /\ row.val1 = larger => row.size1 = Rat(30)
              /\ row.val2 = larger => row.size2 = Rat(30)

\* values of a category beyond those of the tables of the model
MarkerValues == {-100, -3, -1, 0, 1, 2, 3, 7, 150}

\* the sizes computed for every pair of those values are as claimed
MarkerSizesOverRange ==
    \A val1, val2 \in MarkerValues :
        LET max_val == MaxVal(val1, val2)
        IN  MarkerSizesAsClaimed([val1 |-> val1, val2 |-> val2,
                                  size1 |-> MarkerSize(val1, max_val),
                                  size2 |-> MarkerSize(val2, max_val)])

\* C30: in create_dumbbell_chart_updated, for every category and whatever
\* the two values are (zero and negative values included), both marker
\* sizes lie between 10 and 30, and when the larger of the two values is
\* positive the marker of the larger value has size 30.
C30_MarkerSizesBounded ==
    /\ MarkerSizesOverRange
    /\ (IsComparison /\ frame.branch = "compare" /\ frame.ret.kind = "outputs") =>
          \A fig \in {frame.ret.amount_dumbbell, frame.ret.income_dumbbell} :
              \A i \in 1..Len(RowsOf(fig)) : MarkerSizesAsClaimed(RowsOf(fig)[i])

\* one chart with a category whose larger value is positive, its other
\* marker strictly between the limits, and a category with a negative value
\* whose larger value is 0
C30_Witness ==
    /\ Compared
    /\ frame.ret.kind = "outputs"
    /\ LET rows == RowsOf(frame.ret.amount_dumbbell)
       IN  /\ \E i \in 1..Len(rows) :
                 /\ rows[i].val2 > rows[i].val1 /\ rows[i].val1 > 0
                 /\ rows[i].size2 = Rat(30)
                 /\ RatLt(Rat(10), rows[i].size1) /\ RatLt(rows[i].size1, Rat(30))
           /\ \E i \in 1..Len(rows) :
                 /\ rows[i].val2 < 0 /\ rows[i].val1 = 0
                 /\ rows[i].size1 = Rat(10) /\ rows[i].size2 = Rat(10)

====
